---- MODULE Spec2Model ----
(***************************************************************************)
(* Election analysis: the name normalizer and the reconciliation index of  *)
(* the constituency map, the filter pipeline of the master sheet and the   *)
(* reducers of the dashboard, the user's actions on the map and the sheet, *)
(* and the loading of the data by the application shell.                   *)
(*                                                                         *)
(* Text is a sequence of one-character strings, so that lower-casing,      *)
(* replacing, trimming and substring search are computed as the code       *)
(* computes them.  A JavaScript value is a record [t, n, s]: its type tag, *)
(* its number (when t = "number" or "boolean") and its text (when          *)
(* t = "string").  Percentages are held in hundredths (16.66 is 1666).     *)
(***************************************************************************)
EXTENDS Integers, Sequences, FiniteSets, TLC

VARIABLES
    data,              \* the records the component receives (props.data)
    sheet,             \* MasterSheet: the filter, sort and page state
    cmap,              \* ConstituencyMap: the filter state
    feature,           \* the geographic feature being styled
    processed,         \* MasterSheet: the value of processedData
    resultsMap,        \* ConstituencyMap: the value of resultsMap
    normalizedAcName,  \* ConstituencyMap.style: the key of the feature
    dataObj,           \* ConstituencyMap.style: resultsMap.get(key)
    seats,             \* the per-party seat counts of the last reduction
    viewMode,          \* ConstituencyMap: what the fill colour shows
    styled,            \* ConstituencyMap.style: the path options returned
    tooltip,           \* ConstituencyMap.onEachFeature: the tooltip bound
    statsData,         \* MasterSheet: the value of statsData
    charts,            \* Dashboard and map summary: the reducers' values
    steps,             \* the number of user actions so far
    layer,             \* ConstituencyMap: the mounted GeoJSON layer
    raw,               \* how the CSV and the GeoJSON requests will settle
    app,               \* App: loading, data and view
    geo,               \* ConstituencyMap: loading and geoJsonData
    pc                 \* the operations that have run

vars == <<data, sheet, cmap, feature, processed, resultsMap,
          normalizedAcName, dataObj, seats, viewMode, styled, tooltip,
          statsData, charts, steps, layer, raw, app, geo, pc>>

-----------------------------------------------------------------------------
(* Bounds *)

\* Longest name drawn from the small alphabet.
MaxNameLen == 3

\* Most records in a record set.
MaxRecords == 3

\* Most actions of the user followed on the master sheet.
MaxSteps == 3

-----------------------------------------------------------------------------
(* JavaScript values *)

Str(s) == [t |-> "string", n |-> 0, s |-> s]

Num(n) == [t |-> "number", n |-> n, s |-> <<>>]

Bool(b) == [t |-> "boolean", n |-> IF b THEN 1 ELSE 0, s |-> <<>>]

Null == [t |-> "null", n |-> 0, s |-> <<>>]

Undefined == [t |-> "undefined", n |-> 0, s |-> <<>>]

\* An object or function that is no string: the members a plain object
\* inherits from Object.prototype.
Obj(s) == [t |-> "object", n |-> 0, s |-> s]

\* ToBoolean: '', 0, null, undefined and false are falsy.
Truthy(v) ==
    CASE v.t = "string" -> v.s # <<>>
      [] v.t = "number" -> v.n # 0
      [] v.t = "boolean" -> v.n = 1
      [] v.t = "object" -> TRUE
      [] OTHER -> FALSE

\* a || b
JsOr(a, b) == IF Truthy(a) THEN a ELSE b

\* a === b on the values the model holds (no NaN is ever stored).
StrictEq(a, b) == a = b

-----------------------------------------------------------------------------
(* Text *)

UpperCase == <<"A", "B", "C", "D", "E", "F", "G", "H", "I", "J", "K", "L", "M",
               "N", "O", "P", "Q", "R", "S", "T", "U", "V", "W", "X", "Y", "Z">>

LowerCase == <<"a", "b", "c", "d", "e", "f", "g", "h", "i", "j", "k", "l", "m",
               "n", "o", "p", "q", "r", "s", "t", "u", "v", "w", "x", "y", "z">>

LowerChar(c) ==
    IF \E i \in 1..Len(UpperCase) : UpperCase[i] = c
    THEN LowerCase[CHOOSE i \in 1..Len(UpperCase) : UpperCase[i] = c]
    ELSE c

\* String.prototype.toLowerCase
toLowerCase(s) == [i \in 1..Len(s) |-> LowerChar(s[i])]

\* The characters String.prototype.trim removes that occur in the inputs.
WhiteSpace == {" ", "\t"}

RECURSIVE trimStart(_)
trimStart(s) ==
    IF s # <<>> /\ s[1] \in WhiteSpace THEN trimStart(Tail(s)) ELSE s

RECURSIVE trimEnd(_)
trimEnd(s) ==
    IF s # <<>> /\ s[Len(s)] \in WhiteSpace
    THEN trimEnd(SubSeq(s, 1, Len(s) - 1))
    ELSE s

\* String.prototype.trim
trim(s) == trimEnd(trimStart(s))

\* Does pat occur in s at position i?
matchesAt(s, pat, i) ==
    /\ i + Len(pat) - 1 <= Len(s)
    /\ SubSeq(s, i, i + Len(pat) - 1) = pat

\* String.prototype.includes
includes(s, pat) == \E i \in 1..(Len(s) + 1) : matchesAt(s, pat, i)

\* s.replace(/pat/g, ''): every occurrence, leftmost first, not overlapping.
RECURSIVE replaceAll(_, _)
replaceAll(s, pat) ==
    IF Len(s) < Len(pat) THEN s
    ELSE IF matchesAt(s, pat, 1)
         THEN replaceAll(SubSeq(s, Len(pat) + 1, Len(s)), pat)
         ELSE <<s[1]>> \o replaceAll(Tail(s), pat)

\* s.replace(/pat/i, ''): the first occurrence only, in any letter case
\* (pat is given in lower case).
replaceFirstIgnoreCase(s, pat) ==
    IF includes(toLowerCase(s), pat)
    THEN LET i == CHOOSE k \in 1..Len(s) :
                     /\ matchesAt(toLowerCase(s), pat, k)
                     /\ \A j \in 1..(k - 1) : ~matchesAt(toLowerCase(s), pat, j)
         IN  SubSeq(s, 1, i - 1) \o SubSeq(s, i + Len(pat), Len(s))
    ELSE s

-----------------------------------------------------------------------------
(* Name normalizer (ConstituencyMap) *)

\* GeoJSON name variations -> CSV names, in the order of the source.
NAME_MAPPING == <<
    << <<"g", "u", "m", "m", "i", "d", "i", "p", "o", "o", "n", "d", "i">>, <<"g", "u", "m", "m", "i", "d", "i", "p", "u", "n", "d", "i">> >>,
    << <<"t", "i", "r", "u", "v", "o", "t", "t", "i", "y", "u", "r">>, <<"t", "h", "i", "r", "u", "v", "o", "t", "t", "i", "y", "u", "r">> >>,
    << <<"a", "r", "a", "k", "k", "o", "n", "a", "m">>, <<"a", "r", "a", "k", "o", "n", "a", "m">> >>,
    << <<"s", "h", "o", "l", "i", "n", "g", "u", "r">>, <<"s", "h", "o", "l", "i", "n", "g", "h", "u", "r">> >>,
    << <<"d", "r", ".", "r", "a", "d", "h", "a", "k", "r", "i", "s", "h", "n", "a", "n", " ", "n", "a", "g", "a">>, <<"d", "r", ".", " ", "r", "a", "d", "h", "a", "k", "r", "i", "s", "h", "n", "a", "n", " ", "n", "a", "g", "a", "r">> >>,
    << <<"k", "i", "l", "v", "a", "i", "t", "h", "i", "n", "a", "n", "k", "u", "p", "p", "a", "m", "(", "s", "c">>, <<"k", "i", "l", "v", "a", "i", "t", "h", "i", "n", "a", "n", "k", "u", "p", "p", "a", "m">> >>,
    << <<"g", "u", "d", "i", "y", "a", "t", "t", "a", "m">>, <<"g", "u", "d", "i", "y", "a", "t", "h", "a", "m">> >>,
    << <<"c", "h", "e", "p", "a", "u", "k", "-", "t", "h", "i", "r", "u", "v", "a", "l", "l", "i", "k", "e", "n">>, <<"c", "h", "e", "p", "a", "u", "k", "-", "t", "h", "i", "r", "u", "v", "a", "l", "l", "i", "k", "e", "n", "i">> >>,
    << <<"t", "h", "i", "y", "a", "g", "a", "r", "a", "y", "a", "n", "a", "g", "a", "r">>, <<"t", "h", "e", "a", "y", "a", "g", "a", "r", "a", "y", "a", " ", "n", "a", "g", "a", "r">> >>,
    << <<"v", "a", "n", "i", "y", "a", "m", "b", "a", "d", "i">>, <<"v", "a", "n", "i", "a", "y", "a", "m", "b", "a", "d", "i">> >>,
    << <<"m", "a", "d", "u", "r", "a", "n", "t", "a", "k", "a", "m">>, <<"m", "a", "d", "u", "r", "a", "n", "t", "h", "a", "k", "a", "m">> >>,
    << <<"p", "a", "l", "a", "c", "o", "d", "u">>, <<"p", "a", "l", "a", "c", "o", "d", "e">> >>,
    << <<"r", "i", "s", "h", "i", "v", "a", "n", "d", "i", "y", "a", "m">>, <<"r", "i", "s", "h", "i", "v", "a", "n", "d", "i", "a", "m">> >>,
    << <<"v", "i", "l", "u", "p", "p", "u", "r", "a", "m">>, <<"v", "i", "l", "l", "u", "p", "u", "r", "a", "m">> >>,
    << <<"u", "l", "u", "n", "d", "u", "r", "p", "e", "t", "t", "a", "i">>, <<"u", "l", "u", "n", "d", "u", "r", "p", "e", "t">> >>,
    << <<"e", "d", "a", "p", "p", "a", "d", "i">>, <<"e", "d", "a", "p", "a", "d", "i">> >>,
    << <<"t", "i", "r", "u", "c", "h", "e", "n", "g", "o", "d", "u">>, <<"t", "i", "r", "u", "c", "h", "e", "n", "g", "o", "d", "e">> >>,
    << <<"s", "e", "n", "t", "h", "a", "m", "a", "n", "g", "a", "l", "a", "m">>, <<"s", "e", "n", "d", "a", "m", "a", "n", "g", "a", "l", "a", "m">> >>,
    << <<"m", "e", "t", "t", "u", "p", "p", "a", "l", "a", "y", "a", "m">>, <<"m", "e", "t", "t", "u", "p", "a", "l", "a", "y", "a", "m">> >>,
    << <<"s", "i", "r", "k", "a", "z", "h", "i">>, <<"s", "i", "r", "k", "a", "l", "i">> >>,
    << <<"m", "o", "d", "a", "k", "k", "u", "r", "i", "c", "h", "i">>, <<"m", "o", "d", "a", "k", "u", "r", "i", "c", "h", "i">> >>,
    << <<"t", "h", "i", "r", "u", "v", "i", "d", "a", "i", "m", "a", "r", "u", "d", "u", "r">>, <<"t", "h", "i", "r", "u", "v", "i", "d", "a", "m", "a", "r", "u", "d", "u", "r">> >>,
    << <<"c", "o", "i", "m", "b", "a", "t", "o", "r", "e", "(", "n", "o", "r", "t", "h", ")">>, <<"c", "o", "i", "m", "b", "a", "t", "o", "r", "e", " ", "n", "o", "r", "t", "h">> >>,
    << <<"c", "o", "i", "m", "b", "a", "t", "o", "r", "e", "(", "s", "o", "u", "t", "h", ")">>, <<"c", "o", "i", "m", "b", "a", "t", "o", "r", "e", " ", "s", "o", "u", "t", "h">> >>,
    << <<"u", "d", "u", "m", "a", "l", "a", "i", "p", "e", "t", "t", "a", "i">>, <<"u", "d", "u", "m", "a", "l", "p", "e", "t">> >>,
    << <<"t", "h", "i", "r", "u", "v", "e", "r", "u", "m", "b", "u", "r">>, <<"t", "h", "i", "r", "u", "v", "e", "r", "a", "m", "b", "u", "r">> >>,
    << <<"o", "r", "a", "t", "h", "a", "n", "a", "d", "u">>, <<"o", "r", "a", "t", "h", "a", "n", "a", "d">> >>,
    << <<"t", "h", "i", "r", "u", "t", "h", "u", "r", "a", "i", "p", "o", "o", "n", "d", "i">>, <<"t", "h", "i", "r", "u", "t", "h", "u", "r", "a", "i", "p", "u", "n", "d", "i">> >>,
    << <<"n", "i", "l", "a", "k", "k", "o", "t", "t", "a", "i">>, <<"n", "i", "l", "a", "k", "o", "t", "t", "a", "i">> >>,
    << <<"a", "r", "a", "n", "t", "h", "a", "n", "g", "i">>, <<"a", "r", "a", "n", "t", "a", "n", "g", "i">> >>,
    << <<"a", "r", "u", "p", "p", "u", "k", "k", "o", "t", "t", "a", "i">>, <<"a", "r", "u", "p", "p", "u", "k", "o", "t", "t", "a", "i">> >>,
    << <<"m", "u", "d", "h", "u", "k", "u", "l", "a", "t", "h", "u", "r">>, <<"m", "u", "d", "u", "k", "u", "l", "a", "t", "h", "u", "r">> >>,
    << <<"p", "a", "l", "a", "y", "a", "m", "k", "o", "t", "t", "a", "i">>, <<"p", "a", "l", "a", "y", "a", "m", "c", "o", "t", "t", "a", "i">> >>
>>

\* The own keys of NAME_MAPPING.
NameMappingKeys == {NAME_MAPPING[i][1] : i \in 1..Len(NAME_MAPPING)}

\* The lower-case property names every plain object inherits: reading
\* NAME_MAPPING['constructor'] gives the Object function, and
\* NAME_MAPPING['__proto__'] gives Object.prototype.
InheritedKeys == {<<"c", "o", "n", "s", "t", "r", "u", "c", "t", "o", "r">>, <<"_", "_", "p", "r", "o", "t", "o", "_", "_">>}

\* NAME_MAPPING[key]
NameMappingGet(key) ==
    IF key \in NameMappingKeys
    THEN Str(NAME_MAPPING[CHOOSE i \in 1..Len(NAME_MAPPING) :
                              NAME_MAPPING[i][1] = key][2])
    ELSE IF key \in InheritedKeys THEN Obj(key)
    ELSE Undefined

tiruchirappalli == <<"t", "i", "r", "u", "c", "h", "i", "r", "a", "p", "p", "a", "l", "l", "i">>

TiruchirapalliWest == <<"t", "i", "r", "u", "c", "h", "i", "r", "a", "p", "a", "l", "l", "i", " ", "(", "w", "e", "s", "t", ")">>

TiruchirapalliEast == <<"t", "i", "r", "u", "c", "h", "i", "r", "a", "p", "a", "l", "l", "i", " ", "(", "e", "a", "s", "t", ")">>

\* Lines 545-549: lower-case, strip the annotations, trim.
cleanName(name) ==
    trim(replaceAll(replaceAll(replaceAll(toLowerCase(name), <<"(", "s", "c", ")">>),
                               <<"(", "s", "t", ")">>),
                    <<"(", "s", "c">>))

\* The normalizer as if the split-constituency case were missing.
getNormalizedNameNoSplit(f) ==
    LET props == f.properties
        name == JsOr(props.AC_NAME, props.ac_name)
    IN  IF ~Truthy(name) THEN Str(<<>>)
        ELSE JsOr(NameMappingGet(cleanName(name.s)), Str(cleanName(name.s)))

getNormalizedName(f) ==
    LET props == f.properties
        name == JsOr(props.AC_NAME, props.ac_name)
        acNo == JsOr(props.AC_NO, props.ac_no)
    IN  IF ~Truthy(name) THEN Str(<<>>)
        ELSE IF includes(toLowerCase(name.s), tiruchirappalli)
                /\ StrictEq(acNo, Num(140))
             THEN Str(TiruchirapalliWest)
        ELSE IF includes(toLowerCase(name.s), tiruchirappalli)
                /\ StrictEq(acNo, Num(141))
             THEN Str(TiruchirapalliEast)
        ELSE JsOr(NameMappingGet(cleanName(name.s)), Str(cleanName(name.s)))

-----------------------------------------------------------------------------
(* Record model (ElectionResult), as enriched by App.fetchData *)

s_All == <<"A", "l", "l">>

s_DMK == <<"D", "M", "K">>

s_ADMK == <<"A", "D", "M", "K">>

s_NTK == <<"N", "T", "K">>

s_AMMK == <<"A", "M", "M", "K">>

s_Chennai == <<"C", "h", "e", "n", "n", "a", "i">>

s_HarurSC == <<"H", "a", "r", "u", "r", " ", "(", "S", "C", ")">>

s_YercaudST == <<"Y", "e", "r", "c", "a", "u", "d", " ", "(", "S", "T", ")">>

s_Dharmapuri == <<"D", "h", "a", "r", "m", "a", "p", "u", "r", "i">>

s_Salem == <<"S", "a", "l", "e", "m">>

s_Graduate == <<"G", "r", "a", "d", "u", "a", "t", "e">>

s_TenthPass == <<"1", "0", "t", "h", " ", "P", "a", "s", "s">>

\* Localized labels: one string per letter of the Tamil text, none of which
\* toLowerCase changes.
ta_Chennai == <<"#ce", "#nn", "#ai">>

ta_Harur == <<"#a", "#ruu", "#r">>

ta_DMK == <<"#ti", "#mu", "#ka">>

ta_ADMK == <<"#a", "#ti", "#mu", "#ka">>

ta_Graduate == <<"#pa", "#tta", "#m">>

\* The winner of Chennai in 2021: DMK, margin 12000, 50000 votes, 45.05 %.
c1 ==
    [row |-> 0,
     Constituency_Name |-> Str(s_Chennai),
     Constituency_Name_TA |-> Str(ta_Chennai),
     Constituency_Type |-> Str(<<"G", "E", "N">>),
     District_Name |-> Str(s_Chennai),
     District_Name_TA |-> Str(ta_Chennai),
     Year |-> Num(2021),
     Position |-> Num(1),
     Candidate |-> Str(<<"A", "n", "b", "u">>),
     Sex |-> Str(<<"M">>),
     Party |-> Str(s_DMK),
     Party_TA |-> Str(ta_DMK),
     Votes |-> Num(50000),
     Age |-> Num(55),
     Vote_Share_Percentage |-> Num(4505),
     Margin |-> Num(12000),
     Turnout_Percentage |-> Num(6010),
     Incumbent |-> Bool(FALSE),
     Turncoat |-> Bool(FALSE),
     Recontest |-> Bool(TRUE),
     MyNeta_education |-> Str(s_Graduate),
     MyNeta_education_TA |-> Str(ta_Graduate),
     TCPD_Prof_Main |-> Str(<<"B", "u", "s", "i", "n", "e", "s", "s">>),
     TCPD_Prof_Main_TA |-> Str(<<"B", "u", "s", "i", "n", "e", "s", "s">>)]

\* The runner-up of Chennai in 2021: an empty Margin cell (null).
c2 ==
    [c1 EXCEPT !.Position = Num(2), !.Candidate = Str(<<"B", "a", "l", "a">>),
               !.Sex = Str(<<"F">>), !.Party = Str(s_ADMK),
               !.Party_TA = Str(ta_ADMK), !.Votes = Num(38000),
               !.Age = Num(41), !.Vote_Share_Percentage = Num(3423),
               !.Margin = Null, !.Recontest = Bool(FALSE),
               !.MyNeta_education = Str(s_TenthPass),
               !.MyNeta_education_TA = Str(s_TenthPass)]

\* Third in Chennai in 2021: tied with the next candidate (margin 0),
\* 16.65 % of the votes, no age given.
c3 ==
    [c1 EXCEPT !.Position = Num(3), !.Candidate = Str(<<"C", "h", "i", "t", "r", "a">>),
               !.Sex = Str(<<"F">>), !.Party = Str(s_NTK),
               !.Party_TA = Str(s_NTK), !.Votes = Num(9999),
               !.Age = Null, !.Vote_Share_Percentage = Num(1665),
               !.Margin = Num(0), !.Recontest = Bool(FALSE),
               !.MyNeta_education = Null, !.MyNeta_education_TA = Null]

\* The winner of Chennai in 2016: ADMK, margin 50001, 50.01 %.
c4 ==
    [c1 EXCEPT !.Year = Num(2016), !.Candidate = Str(<<"D", "e", "v", "i">>),
               !.Sex = Str(<<"F">>), !.Party = Str(s_ADMK),
               !.Party_TA = Str(ta_ADMK), !.Votes = Num(100001),
               !.Age = Num(61), !.Vote_Share_Percentage = Num(5001),
               !.Margin = Num(50001), !.Incumbent = Bool(TRUE)]

\* The runner-up of Chennai in 2016: DMK, margin 10000 over the third, 30 %.
c5 ==
    [c1 EXCEPT !.Year = Num(2016), !.Position = Num(2),
               !.Votes = Num(50000), !.Age = Num(40),
               !.Vote_Share_Percentage = Num(3000),
               !.Margin = Num(10000), !.Recontest = Bool(FALSE)]

\* The winner of Harur (SC) in 2021: ADMK, margin 9999.
c6 ==
    [c1 EXCEPT !.Constituency_Name = Str(s_HarurSC),
               !.Constituency_Name_TA = Str(ta_Harur),
               !.Constituency_Type = Str(<<"S", "C">>),
               !.District_Name = Str(s_Dharmapuri),
               !.District_Name_TA = Str(s_Dharmapuri),
               !.Candidate = Str(<<"E", "z", "h", "i", "l">>), !.Party = Str(s_ADMK),
               !.Party_TA = Str(ta_ADMK), !.Votes = Num(10000),
               !.Age = Num(25), !.Vote_Share_Percentage = Num(5000),
               !.Margin = Num(9999), !.Turncoat = Bool(TRUE)]

\* The runner-up of Harur (SC) in 2021: DMK, margin 50000 over the third,
\* 16.66 %.
c7 ==
    [c6 EXCEPT !.Position = Num(2), !.Candidate = Str(<<"A", "n", "b", "u">>),
               !.Party = Str(s_DMK), !.Party_TA = Str(ta_DMK),
               !.Votes = Num(100000), !.Age = Num(60),
               !.Vote_Share_Percentage = Num(1666),
               !.Margin = Num(50000), !.Turncoat = Bool(FALSE)]

\* The winner of Yercaud (ST) in 2021: AMMK, a row cut short (no Margin,
\* no Vote_Share_Percentage column: undefined).
c8 ==
    [c1 EXCEPT !.Constituency_Name = Str(s_YercaudST),
               !.Constituency_Name_TA = Str(s_YercaudST),
               !.Constituency_Type = Str(<<"S", "T">>),
               !.District_Name = Str(s_Salem),
               !.District_Name_TA = Str(s_Salem),
               !.Candidate = Str(<<"G", "o", "p", "a", "l">>), !.Party = Str(s_AMMK),
               !.Party_TA = Str(s_AMMK), !.Votes = Num(0),
               !.Age = Num(20), !.Vote_Share_Percentage = Undefined,
               !.Margin = Undefined]

\* Fourth in Chennai in 2021: a row whose district and numeric cells are
\* empty (null).
c9 ==
    [c1 EXCEPT !.Position = Num(4), !.Candidate = Str(<<"H", "a", "r", "i">>),
               !.District_Name = Null, !.District_Name_TA = Null,
               !.Party = Str(s_NTK), !.Party_TA = Str(s_NTK),
               !.Votes = Null, !.Age = Null,
               !.Vote_Share_Percentage = Null, !.Margin = Null,
               !.Recontest = Bool(FALSE)]

\* Last in Harur (SC) in 2021: no votes, 0 % of them.
c10 ==
    [c6 EXCEPT !.Position = Num(3), !.Candidate = Str(<<"I", "n", "d", "r", "a">>),
               !.Sex = Str(<<"F">>), !.Party = Str(s_NTK),
               !.Party_TA = Str(s_NTK), !.Votes = Num(0),
               !.Age = Num(30), !.Vote_Share_Percentage = Num(0),
               !.Margin = Num(0), !.Turncoat = Bool(FALSE),
               !.Recontest = Bool(FALSE)]

\* The rows the record sets are drawn from.
Corpus == <<c1, c2, c3, c4, c5, c6, c7, c8, c9, c10>>

\* papaparse gives one object per row: row is the object's identity.
WithRows(rows) == [i \in 1..Len(rows) |-> [rows[i] EXCEPT !.row = i]]

\* The increasing index sequences of length n over 1..m.
RECURSIVE Picks(_, _)
Picks(m, n) ==
    IF n = 0 THEN {<<>>}
    ELSE {Append(p, i) : p \in Picks(m, n - 1), i \in 1..m}

IncreasingPicks(m, n) ==
    {p \in Picks(m, n) : \A i \in 1..(n - 1) : p[i] < p[i + 1]}

\* Every record set of at most MaxRecords rows of the corpus, in its order.
DataSets ==
    {WithRows([i \in 1..Len(p) |-> Corpus[p[i]]]) :
        p \in UNION {IncreasingPicks(Len(Corpus), n) : n \in 0..MaxRecords}}

-----------------------------------------------------------------------------
(* Array helpers *)

\* Array.prototype.filter is SelectSeq.  Array.prototype.find is the first
\* of the matches, as a sequence of at most one.
findFirst(matches) == IF matches = <<>> THEN <<>> ELSE <<matches[1]>>

\* Array.prototype.includes on an array of strings.
listIncludes(list, v) ==
    v.t = "string" /\ \E i \in 1..Len(list) : list[i] = v.s

-----------------------------------------------------------------------------
(* ConstituencyMap: filter state, filteredData, resultsMap *)

DefaultMap ==
    [selectedAlliance |-> "All",
     selectedParty |-> s_All,
     marginRange |-> "All",
     constituencyType |-> s_All,
     selectedGender |-> s_All,
     selectedDistrict |-> s_All,
     searchTerm |-> <<>>]

MapDmkAlliance ==
    <<<<"D", "M", "K">>, <<"I", "N", "C">>, <<"V", "C", "K">>, <<"C", "P", "I">>, <<"C", "P", "M">>, <<"C", "P", "I", "(", "M", ")">>, <<"I", "U", "M", "L">>, <<"K", "M", "D", "K">>,
      <<"M", "D", "M", "K">>, <<"M", "M", "K">>>>

MapAdmkAlliance == <<<<"A", "D", "M", "K">>, <<"B", "J", "P">>, <<"P", "M", "K">>, <<"T", "M", "C">>, <<"T", "M", "C", "(", "M", ")">>>>

mapAllianceKeeps(alliance, item) ==
    CASE alliance = "DMK+" -> listIncludes(MapDmkAlliance, item.Party)
      [] alliance = "ADMK+" -> listIncludes(MapAdmkAlliance, item.Party)
      [] alliance = "Others" ->
            ~listIncludes(MapDmkAlliance \o MapAdmkAlliance, item.Party)
      [] OTHER -> TRUE

\* The margin bucket of both components (the same code in each).
marginKeeps(range, item) ==
    LET margin == item.Margin
    IN  IF ~Truthy(margin) THEN FALSE
        ELSE CASE range = "High" -> margin.n > 50000
               [] range = "Medium" -> margin.n >= 10000 /\ margin.n <= 50000
               [] range = "Low" -> margin.n < 10000
               [] OTHER -> TRUE

mapSearchKeeps(term, item) ==
    \/ includes(toLowerCase(item.Constituency_Name.s), toLowerCase(term))
    \/ /\ item.Constituency_Name_TA.t = "string"
       /\ includes(item.Constituency_Name_TA.s, term)

isWinner(d) == StrictEq(d.Position, Num(1))

filteredData(rows, st) ==
    LET winners == SelectSeq(rows, isWinner)
        byAlliance(item) ==
            st.selectedAlliance # "All" =>
                mapAllianceKeeps(st.selectedAlliance, item)
        f1 == SelectSeq(winners, byAlliance)
        byParty(item) ==
            st.selectedParty # s_All =>
                StrictEq(item.Party, Str(st.selectedParty))
        f2 == SelectSeq(f1, byParty)
        byMargin(item) ==
            st.marginRange # "All" => marginKeeps(st.marginRange, item)
        f3 == SelectSeq(f2, byMargin)
        byType(item) ==
            st.constituencyType # s_All =>
                StrictEq(item.Constituency_Type, Str(st.constituencyType))
        f4 == SelectSeq(f3, byType)
        byGender(item) ==
            st.selectedGender # s_All =>
                StrictEq(item.Sex, Str(st.selectedGender))
        f5 == SelectSeq(f4, byGender)
        byDistrict(item) ==
            st.selectedDistrict # s_All =>
                StrictEq(item.District_Name, Str(st.selectedDistrict))
        f6 == SelectSeq(f5, byDistrict)
        bySearch(item) ==
            st.searchTerm # <<>> => mapSearchKeeps(st.searchTerm, item)
        f7 == SelectSeq(f6, bySearch)
    IN  f7

\* The key of a winner: remove the first (SC) and the first (ST) in any
\* letter case, trim, lower-case.
winnerKey(winner) ==
    toLowerCase(trim(replaceFirstIgnoreCase(
        replaceFirstIgnoreCase(winner.Constituency_Name.s, <<"(", "s", "c", ")">>),
        <<"(", "s", "t", ")">>)))

\* The runner-up as if it were looked up among the filtered winners.
runnerUpOfAmongWinners(rows, winner) ==
    LET isRunnerUp(d) ==
            /\ StrictEq(d.Constituency_Name, winner.Constituency_Name)
            /\ StrictEq(d.Position, Num(2))
    IN  findFirst(SelectSeq(SelectSeq(rows, isWinner), isRunnerUp))

\* data.find(...): the first Position-2 record of all the data with the
\* winner's constituency name.
runnerUpOf(rows, winner) ==
    LET isRunnerUp(d) ==
            /\ StrictEq(d.Constituency_Name, winner.Constituency_Name)
            /\ StrictEq(d.Position, Num(2))
    IN  findFirst(SelectSeq(rows, isRunnerUp))

\* map.set for each filtered winner in turn: a later winner with the same
\* key replaces the earlier entry.  The Map is held as a function from its
\* keys; an absent runnerUp is the empty sequence.
buildResultsMap(rows, st) ==
    LET winners == filteredData(rows, st)
        keys == {winnerKey(winners[i]) : i \in 1..Len(winners)}
        last(k) == CHOOSE i \in 1..Len(winners) :
                      /\ winnerKey(winners[i]) = k
                      /\ \A j \in (i + 1)..Len(winners) :
                            winnerKey(winners[j]) # k
    IN  [k \in keys |->
            [winner |-> winners[last(k)],
             runnerUp |-> runnerUpOf(rows, winners[last(k)])]]

\* resultsMap.get(key): the entry as a sequence of at most one.
resultsMapGet(map, key) ==
    IF key.t = "string" /\ key.s \in DOMAIN map THEN <<map[key.s]>> ELSE <<>>

-----------------------------------------------------------------------------
(* Numbers and text conversions used by MasterSheet *)

Digits == <<"0", "1", "2", "3", "4", "5", "6", "7", "8", "9">>

isDigit(c) == \E i \in 1..Len(Digits) : Digits[i] = c

digitValue(c) == (CHOOSE i \in 1..Len(Digits) : Digits[i] = c) - 1

\* Number.prototype.toString of a natural number.
RECURSIVE numToString(_)
numToString(n) ==
    IF n < 10 THEN <<Digits[n + 1]>>
    ELSE numToString(n \div 10) \o <<Digits[(n % 10) + 1]>>

\* NaN: a number that equals nothing, itself included.
NaN == [t |-> "NaN", n |-> 0, s |-> <<>>]

\* The value of the longest prefix of digits.
RECURSIVE digitsPrefixValue(_, _)
digitsPrefixValue(s, acc) ==
    IF s = <<>> \/ ~isDigit(s[1]) THEN acc
    ELSE digitsPrefixValue(Tail(s), 10 * acc + digitValue(s[1]))

\* parseInt of a text without sign: leading white space is skipped, the
\* digits that follow are read, and NaN is returned when there are none.
parseInt(s) ==
    LET body == trimStart(s)
    IN  IF body = <<>> \/ ~isDigit(body[1]) THEN NaN
        ELSE Num(digitsPrefixValue(body, 0))

\* String(v)
jsString(v) ==
    CASE v.t = "string" -> v.s
      [] v.t = "number" -> numToString(v.n)
      [] v.t = "boolean" -> IF v.n = 1 THEN <<"t", "r", "u", "e">> ELSE <<"f", "a", "l", "s", "e">>
      [] v.t = "null" -> <<"n", "u", "l", "l">>
      [] v.t = "undefined" -> <<"u", "n", "d", "e", "f", "i", "n", "e", "d">>
      [] OTHER -> <<"N", "a", "N">>

\* v < bound for a number bound: null converts to 0, undefined to NaN
\* (every comparison with NaN is false).
lessThanNumber(v, bound) ==
    CASE v.t = "number" -> v.n < bound
      [] v.t = "boolean" -> v.n < bound
      [] v.t = "null" -> 0 < bound
      [] OTHER -> FALSE

\* The order localeCompare gives the characters of the inputs: white space,
\* punctuation, digits, the Latin letters, then the Tamil letters.
Collation ==
    <<" ", "_", "-", ".", "(", ")", "+">> \o Digits \o LowerCase
    \o <<"#a", "#ai", "#ce", "#ka", "#m", "#mu", "#nn", "#pa", "#r", "#ruu",
         "#ti", "#tta">>

rank(c) ==
    IF \E i \in 1..Len(Collation) : Collation[i] = LowerChar(c)
    THEN CHOOSE i \in 1..Len(Collation) : Collation[i] = LowerChar(c)
    ELSE Len(Collation) + 1

\* -1, 0 or 1 as the ranks of a come before, with or after those of b.
RECURSIVE compareRanks(_, _)
compareRanks(a, b) ==
    IF a = <<>> /\ b = <<>> THEN 0
    ELSE IF a = <<>> THEN -1
    ELSE IF b = <<>> THEN 1
    ELSE IF rank(a[1]) < rank(b[1]) THEN -1
    ELSE IF rank(a[1]) > rank(b[1]) THEN 1
    ELSE compareRanks(Tail(a), Tail(b))

\* Of two texts with the same letters, the one with the lower-case letter at
\* the first difference comes first.
RECURSIVE compareCase(_, _)
compareCase(a, b) ==
    IF a = <<>> \/ b = <<>> THEN 0
    ELSE IF a[1] = b[1] THEN compareCase(Tail(a), Tail(b))
    ELSE IF LowerChar(a[1]) = a[1] THEN -1
    ELSE 1

\* String.prototype.localeCompare
localeCompare(a, b) ==
    IF compareRanks(a, b) # 0 THEN compareRanks(a, b) ELSE compareCase(a, b)

sign(n) == IF n < 0 THEN -1 ELSE IF n > 0 THEN 1 ELSE 0

-----------------------------------------------------------------------------
(* MasterSheet: filter state and processedData *)

DefaultSheet ==
    [searchTerm |-> <<>>,
     currentPage |-> 1,
     constituencyType |-> s_All,
     ageRange |-> "All",
     selectedYear |-> s_All,
     selectedDistrict |-> s_All,
     selectedConstituency |-> s_All,
     selectedParty |-> s_All,
     selectedPosition |-> s_All,
     selectedGender |-> s_All,
     marginRange |-> "All",
     voteShareRange |-> "All",
     selectedAlliance |-> "All",
     voteCountRange |-> "All",
     winnersOnly |-> FALSE,
     selectedCategory |-> "All",
     selectedEducation |-> s_All,
     sortConfig |-> <<>>]

\* field?.toLowerCase().includes(lowerTerm)
fieldIncludes(v, lowerTerm) ==
    v.t = "string" /\ includes(toLowerCase(v.s), lowerTerm)

\* The search as if the term were not lower-cased.
searchKeepsCaseSensitive(term, item) ==
    \/ fieldIncludes(item.Constituency_Name, term)
    \/ fieldIncludes(item.Candidate, term)
    \/ fieldIncludes(item.Party, term)
    \/ fieldIncludes(item.District_Name, term)
    \/ fieldIncludes(item.Constituency_Name_TA, term)
    \/ fieldIncludes(item.Party_TA, term)
    \/ fieldIncludes(item.District_Name_TA, term)

searchKeeps(term, item) ==
    LET lowerTerm == toLowerCase(term)
    IN  \/ fieldIncludes(item.Constituency_Name, lowerTerm)
        \/ fieldIncludes(item.Candidate, lowerTerm)
        \/ fieldIncludes(item.Party, lowerTerm)
        \/ fieldIncludes(item.District_Name, lowerTerm)
        \/ fieldIncludes(item.Constituency_Name_TA, lowerTerm)
        \/ fieldIncludes(item.Party_TA, lowerTerm)
        \/ fieldIncludes(item.District_Name_TA, lowerTerm)

\* The deposit-lost test with <= 16.66.
positionKeepsInclusive(position, item) ==
    IF position = <<"D", "e", "p", "o", "s", "i", "t", "L", "o", "s", "t">>
    THEN lessThanNumber(item.Vote_Share_Percentage, 1667)
    ELSE LET wanted == parseInt(position)
         IN  wanted.t = "number" /\ StrictEq(item.Position, wanted)

\* The position facet: the deposit-lost test, or the exact position.
positionKeeps(position, item) ==
    IF position = <<"D", "e", "p", "o", "s", "i", "t", "L", "o", "s", "t">>
    THEN lessThanNumber(item.Vote_Share_Percentage, 1666)
    ELSE LET wanted == parseInt(position)
         IN  wanted.t = "number" /\ StrictEq(item.Position, wanted)

ageKeeps(range, item) ==
    LET age == item.Age
    IN  IF ~Truthy(age) THEN FALSE
        ELSE CASE range = "25-40" -> age.n >= 25 /\ age.n <= 40
               [] range = "41-60" -> age.n >= 41 /\ age.n <= 60
               [] range = "61+" -> age.n > 60
               [] OTHER -> TRUE

voteShareKeeps(range, item) ==
    LET share == item.Vote_Share_Percentage
    IN  IF ~Truthy(share) THEN FALSE
        ELSE CASE range = "High" -> share.n > 5000
               [] range = "Medium" -> share.n >= 3000 /\ share.n <= 5000
               [] range = "Low" -> share.n < 3000
               [] OTHER -> TRUE

SheetDmkAlliance ==
    <<<<"D", "M", "K">>, <<"I", "N", "C">>, <<"V", "C", "K">>, <<"C", "P", "I">>, <<"C", "P", "M">>, <<"C", "P", "I", "(", "M", ")">>, <<"I", "U", "M", "L">>, <<"K", "M", "D", "K">>,
      <<"M", "D", "M", "K">>, <<"M", "M", "K">>>>

SheetAdmkAlliance ==
    <<<<"A", "D", "M", "K">>, <<"B", "J", "P">>, <<"P", "M", "K">>, <<"T", "M", "C">>, <<"T", "M", "C", "(", "M", ")">>, <<"A", "M", "M", "K">>, <<"A", "I", "A", "D", "M", "K">>>>

sheetAllianceKeeps(alliance, item) ==
    LET party == IF Truthy(item.Party) THEN Str(trim(item.Party.s))
                 ELSE Str(<<>>)
    IN  CASE alliance = "DMK+" -> listIncludes(SheetDmkAlliance, party)
          [] alliance = "ADMK+" -> listIncludes(SheetAdmkAlliance, party)
          [] alliance = "Others" ->
                ~listIncludes(SheetDmkAlliance \o SheetAdmkAlliance, party)
          [] OTHER -> TRUE

voteCountKeeps(range, item) ==
    LET votes == item.Votes
    IN  IF ~Truthy(votes) THEN FALSE
        ELSE CASE range = ">1L" -> votes.n > 100000
               [] range = "50k-1L" -> votes.n >= 50000 /\ votes.n <= 100000
               [] range = "10k-50k" -> votes.n >= 10000 /\ votes.n <= 50000
               [] range = "<10k" -> votes.n < 10000
               [] OTHER -> TRUE

isTrue(val) ==
    \/ StrictEq(val, Bool(TRUE))
    \/ StrictEq(val, Num(1))
    \/ toLowerCase(jsString(val)) = <<"t", "r", "u", "e">>

categoryKeeps(category, item) ==
    CASE category = "Incumbent" -> isTrue(item.Incumbent)
      [] category = "Turncoat" -> isTrue(item.Turncoat)
      [] category = "Recontest" -> isTrue(item.Recontest)
      [] OTHER -> TRUE

isMissing(v) == v.t \in {"null", "undefined"}

\* The comparator as if a missing value followed the direction: first
\* under desc.
compareMissingByDirection(a, b, cfg) ==
    LET aValue == a[cfg.key]
        bValue == b[cfg.key]
        up == IF cfg.direction = "asc" THEN 1 ELSE -1
    IN  IF StrictEq(aValue, bValue) THEN 0
        ELSE IF isMissing(aValue) THEN up
        ELSE IF isMissing(bValue) THEN -up
        ELSE IF aValue.t = "number" /\ bValue.t = "number"
             THEN up * sign(aValue.n - bValue.n)
        ELSE up * localeCompare(jsString(aValue), jsString(bValue))

\* The comparator of the sort: negative when a goes before b.
compare(a, b, cfg) ==
    LET aValue == a[cfg.key]
        bValue == b[cfg.key]
    IN  IF StrictEq(aValue, bValue) THEN 0
        ELSE IF isMissing(aValue) THEN 1
        ELSE IF isMissing(bValue) THEN -1
        ELSE IF aValue.t = "number" /\ bValue.t = "number"
             THEN IF cfg.direction = "asc" THEN sign(aValue.n - bValue.n)
                  ELSE sign(bValue.n - aValue.n)
        ELSE IF cfg.direction = "asc"
             THEN localeCompare(jsString(aValue), jsString(bValue))
             ELSE localeCompare(jsString(bValue), jsString(aValue))

\* x put before its equals: a sort that is not stable.
RECURSIVE insertBeforeEquals(_, _, _)
insertBeforeEquals(sorted, x, cfg) ==
    IF sorted = <<>> THEN <<x>>
    ELSE IF compare(sorted[Len(sorted)], x, cfg) >= 0
         THEN Append(insertBeforeEquals(SubSeq(sorted, 1, Len(sorted) - 1),
                                        x, cfg),
                     sorted[Len(sorted)])
         ELSE Append(sorted, x)

\* x put into a sorted array after every element that does not go after it.
RECURSIVE insertSorted(_, _, _)
insertSorted(sorted, x, cfg) ==
    IF sorted = <<>> THEN <<x>>
    ELSE IF compare(sorted[Len(sorted)], x, cfg) > 0
         THEN Append(insertSorted(SubSeq(sorted, 1, Len(sorted) - 1), x, cfg),
                     sorted[Len(sorted)])
         ELSE Append(sorted, x)

\* [...arr].sort(compare): a stable sort.
RECURSIVE sortBy(_, _, _)
sortBy(arr, cfg, done) ==
    IF arr = <<>> THEN done
    ELSE sortBy(Tail(arr), cfg, insertSorted(done, arr[1], cfg))

\* Step 1 of processedData: the search.
searchStage(result, st) ==
    LET bySearch(item) == searchKeeps(st.searchTerm, item)
    IN  IF st.searchTerm # <<>> THEN SelectSeq(result, bySearch) ELSE result

districtStage(result, st) ==
    LET byDistrict(item) ==
            StrictEq(JsOr(item.District_Name_TA, item.District_Name),
                     Str(st.selectedDistrict))
    IN  IF st.selectedDistrict # s_All
        THEN SelectSeq(result, byDistrict) ELSE result

constituencyStage(result, st) ==
    LET byConstituency(item) ==
            StrictEq(JsOr(item.Constituency_Name_TA, item.Constituency_Name),
                     Str(st.selectedConstituency))
    IN  IF st.selectedConstituency # s_All
        THEN SelectSeq(result, byConstituency) ELSE result

partyStage(result, st) ==
    LET byParty(item) ==
            StrictEq(JsOr(item.Party_TA, item.Party), Str(st.selectedParty))
    IN  IF st.selectedParty # s_All THEN SelectSeq(result, byParty) ELSE result

positionStage(result, st) ==
    LET byPosition(item) == positionKeeps(st.selectedPosition, item)
    IN  IF st.selectedPosition # s_All
        THEN SelectSeq(result, byPosition) ELSE result

typeStage(result, st) ==
    LET byType(item) ==
            StrictEq(item.Constituency_Type, Str(st.constituencyType))
    IN  IF st.constituencyType # s_All
        THEN SelectSeq(result, byType) ELSE result

yearStage(result, st) ==
    LET byYear(item) == numToString(item.Year.n) = st.selectedYear
    IN  IF st.selectedYear # s_All THEN SelectSeq(result, byYear) ELSE result

ageStage(result, st) ==
    LET byAge(item) == ageKeeps(st.ageRange, item)
    IN  IF st.ageRange # "All" THEN SelectSeq(result, byAge) ELSE result

genderStage(result, st) ==
    LET byGender(item) == StrictEq(item.Sex, Str(st.selectedGender))
    IN  IF st.selectedGender # s_All
        THEN SelectSeq(result, byGender) ELSE result

\* The margin stage as if it were skipped once a party is selected.
marginStageUnlessParty(result, st) ==
    LET byMargin(item) == marginKeeps(st.marginRange, item)
    IN  IF st.marginRange # "All" /\ st.selectedParty = s_All
        THEN SelectSeq(result, byMargin) ELSE result

marginStage(result, st) ==
    LET byMargin(item) == marginKeeps(st.marginRange, item)
    IN  IF st.marginRange # "All" THEN SelectSeq(result, byMargin) ELSE result

voteShareStage(result, st) ==
    LET byVoteShare(item) == voteShareKeeps(st.voteShareRange, item)
    IN  IF st.voteShareRange # "All"
        THEN SelectSeq(result, byVoteShare) ELSE result

allianceStage(result, st) ==
    LET byAlliance(item) == sheetAllianceKeeps(st.selectedAlliance, item)
    IN  IF st.selectedAlliance # "All"
        THEN SelectSeq(result, byAlliance) ELSE result

voteCountStage(result, st) ==
    LET byVoteCount(item) == voteCountKeeps(st.voteCountRange, item)
    IN  IF st.voteCountRange # "All"
        THEN SelectSeq(result, byVoteCount) ELSE result

categoryStage(result, st) ==
    LET byCategory(item) == categoryKeeps(st.selectedCategory, item)
    IN  IF st.selectedCategory # "All"
        THEN SelectSeq(result, byCategory) ELSE result

educationStage(result, st) ==
    LET byEducation(item) ==
            StrictEq(JsOr(item.MyNeta_education_TA, item.MyNeta_education),
                     Str(st.selectedEducation))
    IN  IF st.selectedEducation # s_All
        THEN SelectSeq(result, byEducation) ELSE result

\* The override as if it kept the first two of every constituency.
winnersOnlyStageTopTwo(result, st) ==
    LET isTopTwo(item) == item.Position \in {Num(1), Num(2)}
    IN  IF st.winnersOnly THEN SelectSeq(result, isTopTwo) ELSE result

winnersOnlyStage(result, st) ==
    IF st.winnersOnly THEN SelectSeq(result, isWinner) ELSE result

\* The sort as if the sorted rows were pushed onto the rows they came from.
sortStageAppending(result, st) ==
    IF st.sortConfig # <<>>
    THEN result \o sortBy(result, st.sortConfig[1], <<>>)
    ELSE result

\* Step 3 of processedData: a sorted copy.
sortStage(result, st) ==
    IF st.sortConfig # <<>> THEN sortBy(result, st.sortConfig[1], <<>>)
    ELSE result

\* Step 2 of processedData: the facets, each narrowing the result of the
\* one before.
facetStages(result, st) ==
    LET f1 == districtStage(result, st)
        f2 == constituencyStage(f1, st)
        f3 == partyStage(f2, st)
        f4 == positionStage(f3, st)
        f5 == typeStage(f4, st)
        f6 == yearStage(f5, st)
        f7 == ageStage(f6, st)
        f8 == genderStage(f7, st)
        f9 == marginStage(f8, st)
        f10 == voteShareStage(f9, st)
        f11 == allianceStage(f10, st)
        f12 == voteCountStage(f11, st)
        f13 == categoryStage(f12, st)
    IN  educationStage(f13, st)

processedData(rows, st) ==
    sortStage(winnersOnlyStage(facetStages(searchStage(rows, st), st), st),
              st)

\* The sort as if it worked on the array it was given: when no filter made
\* a new array, data itself is put in order.
dataAfterSortInPlace(rows, st) ==
    IF st.sortConfig # <<>> /\ Len(processedData(rows, st)) = Len(rows)
    THEN processedData(rows, st)
    ELSE rows

\* The array data once processedData has run: filter makes a new array and
\* the sort works on a copy ([...result]), so data keeps its rows and their
\* order.
dataAfter(rows, st) == rows

\* The seat counts read with every count one too high.
partyWinsOffByOne(rows) ==
    LET winners == SelectSeq(rows, isWinner)
        parties == {winners[i].Party : i \in 1..Len(winners)}
    IN  [p \in parties |->
            1 + Cardinality({i \in 1..Len(winners) : winners[i].Party = p})]

\* Dashboard.partyWins: the number of Position-1 records of each party, as
\* a function from the parties that won a seat.
partyWins(rows) ==
    LET winners == SelectSeq(rows, isWinner)
        parties == {winners[i].Party : i \in 1..Len(winners)}
    IN  [p \in parties |->
            Cardinality({i \in 1..Len(winners) : winners[i].Party = p})]


-----------------------------------------------------------------------------
(* MasterSheet: statsData *)

\* Math.round((wins / total) * 100): the nearest whole percent, a half
\* rounding up.
roundedPercent(wins, total) == (200 * wins + total) \div (2 * total)

\* The row as if a category no record is in had won all it contested.
categoryRowEmptyAsFull(name, total, wins) ==
    [name |-> name,
     rate |-> IF total # 0 THEN roundedPercent(wins, total) ELSE 100,
     total |-> total,
     wins |-> wins]

\* One row of categoryData; a category no record is in has the rate 0 and
\* nothing is divided.
categoryRow(name, total, wins) ==
    [name |-> name,
     rate |-> IF total # 0 THEN roundedPercent(wins, total) ELSE 0,
     total |-> total,
     wins |-> wins]

\* The keys of eduStats in the order they were first written.
RECURSIVE ownKeys(_, _)
ownKeys(keys, seen) ==
    IF keys = <<>> THEN seen
    ELSE ownKeys(Tail(keys),
                 IF \E i \in 1..Len(seen) : seen[i] = keys[1]
                 THEN seen ELSE Append(seen, keys[1]))

\* x put into an array sorted by falling value, after its equals.
RECURSIVE insertByValue(_, _)
insertByValue(sorted, x) ==
    IF sorted = <<>> THEN <<x>>
    ELSE IF x.value - sorted[Len(sorted)].value > 0
         THEN Append(insertByValue(SubSeq(sorted, 1, Len(sorted) - 1), x),
                     sorted[Len(sorted)])
         ELSE Append(sorted, x)

RECURSIVE sortByValue(_, _)
sortByValue(arr, done) ==
    IF arr = <<>> THEN done
    ELSE sortByValue(Tail(arr), insertByValue(done, arr[1]))

\* arr.slice(0, n)
slice(arr, n) == SubSeq(arr, 1, IF Len(arr) < n THEN Len(arr) ELSE n)

\* The education of a record as eduStats is keyed by it.
eduOf(d) ==
    JsOr(JsOr(d.MyNeta_education_TA, d.MyNeta_education), Str(<<"U", "n", "k", "n", "o", "w", "n">>)).s

\* The statsData memo: a sequence of at most one, empty for null.  The
\* category rows count the records of data, the education rows the winners
\* of the processed rows (or all of them when none won).
computeStats(rows, result) ==
    LET winners == SelectSeq(result, isWinner)
        isIncumbent(d) == Truthy(d.Incumbent)
        isIncumbentWin(d) == Truthy(d.Incumbent) /\ isWinner(d)
        isTurncoat(d) == Truthy(d.Turncoat)
        isTurncoatWin(d) == Truthy(d.Turncoat) /\ isWinner(d)
        isRecontest(d) == Truthy(d.Recontest)
        isRecontestWin(d) == Truthy(d.Recontest) /\ isWinner(d)
        incidents == Len(SelectSeq(rows, isIncumbent))
        incumbentWins == Len(SelectSeq(rows, isIncumbentWin))
        turncoats == Len(SelectSeq(rows, isTurncoat))
        turncoatWins == Len(SelectSeq(rows, isTurncoatWin))
        recontests == Len(SelectSeq(rows, isRecontest))
        recontestWins == Len(SelectSeq(rows, isRecontestWin))
        counted == IF Len(winners) > 0 THEN winners ELSE result
        edus == [i \in 1..Len(counted) |-> eduOf(counted[i])]
        names == ownKeys(edus, <<>>)
        entries == [k \in 1..Len(names) |->
                       [name |-> names[k],
                        value |-> Cardinality({i \in 1..Len(edus) :
                                                  edus[i] = names[k]})]]
    IN  IF Len(result) = 0 THEN <<>>
        ELSE <<[categoryData |->
                    <<categoryRow("Incumbents", incidents, incumbentWins),
                      categoryRow("Turncoats", turncoats, turncoatWins),
                      categoryRow("Recontesting", recontests,
                                  recontestWins)>>,
                eduData |-> slice(sortByValue(entries, <<>>), 5)]>>

-----------------------------------------------------------------------------
(* ConstituencyMap: style and onEachFeature *)

ViewModes == {"winner", "runnerUp", "margin", "voteShare", "turnout"}

\* A fill colour: a colour written in the code, or the entry of partyColors
\* for a party.
Hex(h) == [hex |-> h, party |-> <<>>]

\* The parties the charts read from partyColors by name.
PartyColorsKeys == {<<"D", "M", "K">>, <<"A", "D", "M", "K">>, <<"I", "N", "C">>, <<"P", "M", "K">>, <<"B", "J", "P">>}

\* partyColors[party] || '#808080'
partyFill(party) ==
    IF party.t = "string" /\ party.s \in PartyColorsKeys
    THEN [hex |-> "partyColors", party |-> party.s]
    ELSE Hex("#808080")

\* Percentages are in hundredths.
getColorScale(value, type) ==
    CASE type = "margin" ->
            IF value > 50000 THEN Hex("#10b981")
            ELSE IF value > 20000 THEN Hex("#3b82f6")
            ELSE IF value > 5000 THEN Hex("#f59e0b")
            ELSE Hex("#ef4444")
      [] type = "voteShare" ->
            IF value > 5000 THEN Hex("#047857")
            ELSE IF value > 4500 THEN Hex("#10b981")
            ELSE IF value > 4000 THEN Hex("#3b82f6")
            ELSE IF value > 3000 THEN Hex("#f59e0b")
            ELSE Hex("#ef4444")
      [] type = "turnout" ->
            IF value > 8000 THEN Hex("#1e3a8a")
            ELSE IF value > 7500 THEN Hex("#3b82f6")
            ELSE IF value > 7000 THEN Hex("#60a5fa")
            ELSE IF value > 6000 THEN Hex("#93c5fd")
            ELSE Hex("#e2e8f0")
      [] OTHER -> Hex("#ccc")

\* The fill of a feature that has an entry in the index.
fillOf(entry, mode) ==
    LET winner == entry.winner
        runnerUp == entry.runnerUp
    IN  IF mode = "winner" THEN partyFill(winner.Party)
        ELSE IF mode = "runnerUp" /\ runnerUp # <<>>
             THEN partyFill(runnerUp[1].Party)
        ELSE IF mode = "margin" /\ Truthy(winner.Margin)
             THEN getColorScale(winner.Margin.n, "margin")
        ELSE IF mode = "voteShare" /\ Truthy(winner.Vote_Share_Percentage)
             THEN getColorScale(winner.Vote_Share_Percentage.n, "voteShare")
        ELSE IF mode = "turnout" /\ Truthy(winner.Turnout_Percentage)
             THEN getColorScale(winner.Turnout_Percentage.n, "turnout")
        ELSE Hex("#CCCCCC")

\* The style as if a feature without an entry were outlined like the others.
styleSameOutline(f, map, mode) ==
    LET found == resultsMapGet(map, getNormalizedName(f))
    IN  [fillColor |-> IF found # <<>> THEN fillOf(found[1], mode)
                       ELSE Hex("#CCCCCC"),
         weight |-> 1,
         opacity |-> 1,
         color |-> "white",
         dashArray |-> "3",
         fillOpacity |-> 70]

\* ConstituencyMap.style (fillOpacity in hundredths).
style(f, map, mode) ==
    LET found == resultsMapGet(map, getNormalizedName(f))
    IN  [fillColor |-> IF found # <<>> THEN fillOf(found[1], mode)
                       ELSE Hex("#CCCCCC"),
         weight |-> 1,
         opacity |-> 1,
         color |-> "white",
         dashArray |-> IF found # <<>> THEN "3" ELSE "1",
         fillOpacity |-> 70]

\* What a tooltip template throws when it calls a method of a missing value.
TypeError == [kind |-> "TypeError", title |-> Undefined, runnerUp |-> <<>>]

\* ConstituencyMap.onEachFeature: the tooltip bound to the layer.  The
\* template of a winner calls Votes.toLocaleString() and
\* Vote_Share_Percentage.toFixed(2).
onEachFeature(f, map) ==
    LET acName == JsOr(f.properties.AC_NAME, f.properties.ac_name)
        found == resultsMapGet(map, getNormalizedName(f))
    IN  IF found # <<>>
        THEN LET result == found[1].winner
             IN  IF isMissing(result.Votes)
                    \/ isMissing(result.Vote_Share_Percentage)
                 THEN TypeError
                 ELSE [kind |-> "result",
                       title |-> JsOr(result.Constituency_Name_TA,
                                      result.Constituency_Name),
                       runnerUp |-> found[1].runnerUp]
        ELSE [kind |-> "NoData", title |-> acName, runnerUp |-> <<>>]

-----------------------------------------------------------------------------
(* Dashboard: allianceWins *)

SPA_PARTIES ==
    <<<<"D", "M", "K">>, <<"I", "N", "C">>, <<"V", "C", "K">>, <<"C", "P", "I">>, <<"C", "P", "M">>, <<"C", "P", "I", "(", "M", ")">>, <<"I", "U", "M", "L">>, <<"M", "D", "M", "K">>,
      <<"K", "M", "D", "K">>, <<"M", "M", "K">>>>

NDA_PARTIES == <<<<"A", "D", "M", "K">>, <<"B", "J", "P">>, <<"P", "M", "K">>, <<"T", "M", "C", "(", "M", ")">>>>

\* The alliance a winner's seat is counted for.
allianceOf(w) ==
    IF listIncludes(SPA_PARTIES, w.Party) THEN "DMK+"
    ELSE IF listIncludes(NDA_PARTIES, w.Party) THEN "ADMK+"
    ELSE "Others"

\* Dashboard.allianceWins: the seats of each alliance among the Position-1
\* records.
allianceWins(rows) ==
    LET winners == SelectSeq(rows, isWinner)
    IN  [a \in {"DMK+", "ADMK+", "Others"} |->
            Cardinality({i \in 1..Len(winners) : allianceOf(winners[i]) = a})]

-----------------------------------------------------------------------------
(* Dashboard, AdvancedVisuals and the map summary: the reducers *)

\* The number a division by zero of a positive number gives.
Infinity == [t |-> "Infinity", n |-> 0, s |-> <<>>]

\* sum + v for a number sum: null counts as 0, undefined gives NaN, and NaN
\* stays NaN.
jsAdd(sum, v) ==
    CASE sum.t = "number" /\ v.t \in {"number", "boolean"} -> Num(sum.n + v.n)
      [] sum.t = "number" /\ v.t = "null" -> sum
      [] OTHER -> NaN

\* The whole part and the remainder of scale * a over b, for scale a power
\* of ten, a digit at a time.
RECURSIVE divScaled(_, _, _)
divScaled(a, b, scale) ==
    IF scale = 1 THEN <<a \div b, a % b>>
    ELSE LET p == divScaled(a, b, scale \div 10)
         IN  <<10 * p[1] + (10 * p[2]) \div b, (10 * p[2]) % b>>

\* (a / b) * scale rounded to a whole number, for a and b not negative: NaN
\* for 0 / 0 and for a NaN operand, Infinity for a positive a over 0.
ratio(a, b, scale) ==
    CASE a.t # "number" \/ b.t # "number" -> NaN
      [] b.n = 0 /\ a.n = 0 -> NaN
      [] b.n = 0 -> Infinity
      [] OTHER -> LET p == divScaled(a.n, b.n, scale)
                  IN  Num(p[1] + IF 2 * p[2] >= b.n THEN 1 ELSE 0)

\* rows.reduce((sum, d) => sum + d[field], sum)
RECURSIVE sumField(_, _, _)
sumField(rows, field, sum) ==
    IF rows = <<>> THEN sum
    ELSE sumField(Tail(rows), field, jsAdd(sum, rows[1][field]))

\* Object.entries of a tally object: one {name, value} for each key, in the
\* order the keys were first written, value counting the writes.
tally(keys) ==
    LET names == ownKeys(keys, <<>>)
    IN  [k \in 1..Len(names) |->
            [name |-> names[k],
             value |-> Cardinality({i \in 1..Len(keys) : keys[i] = names[k]})]]

\* The property keys a field gives: the text of the value.
keysOf(rows, field) == [i \in 1..Len(rows) |-> jsString(rows[i][field])]

\* x put into an array sorted by falling x[f] (b[f] - a[f]), after its
\* equals; the values sorted by are numbers.
RECURSIVE insertDesc(_, _, _)
insertDesc(sorted, x, f) ==
    IF sorted = <<>> THEN <<x>>
    ELSE IF x[f].n > sorted[Len(sorted)][f].n
         THEN Append(insertDesc(SubSeq(sorted, 1, Len(sorted) - 1), x, f),
                     sorted[Len(sorted)])
         ELSE Append(sorted, x)

RECURSIVE sortDesc(_, _, _)
sortDesc(arr, f, done) ==
    IF arr = <<>> THEN done
    ELSE sortDesc(Tail(arr), f, insertDesc(done, arr[1], f))

\* AdvancedVisuals.districtData: one row for each district of a winner, in
\* the order the districts first occur, holding the winners of each party
\* there; the first 15 rows are kept.
districtData(rows) ==
    LET winners == SelectSeq(rows, isWinner)
        names == ownKeys(keysOf(winners, "District_Name"), <<>>)
        inDistrict(name) ==
            LET isIn(w) == jsString(w.District_Name) = name
            IN  SelectSeq(winners, isIn)
    IN  [data |-> slice([k \in 1..Len(names) |->
                            [name |-> names[k],
                             counts |-> tally(keysOf(inDistrict(names[k]),
                                                     "Party"))]], 15),
         parties |-> ownKeys(keysOf(winners, "Party"), <<>>)]

\* AdvancedVisuals.strikeRateData: the parties with more than 10 candidates,
\* winRate in tenths of a percent, in falling winRate.
strikeRateData(rows) ==
    LET parties == ownKeys(keysOf(rows, "Party"), <<>>)
        ofParty(p) ==
            LET isOf(d) == jsString(d.Party) = p
            IN  SelectSeq(rows, isOf)
        stats == [k \in 1..Len(parties) |->
                     [name |-> parties[k],
                      contested |-> Len(ofParty(parties[k])),
                      won |-> Len(SelectSeq(ofParty(parties[k]), isWinner))]]
        major(val) == val.contested > 10
        rated == [k \in 1..Len(SelectSeq(stats, major)) |->
                     LET val == SelectSeq(stats, major)[k]
                     IN  [name |-> val.name,
                          winRate |-> ratio(Num(val.won), Num(val.contested),
                                            1000),
                          contested |-> val.contested,
                          won |-> val.won]]
    IN  sortDesc(rated, "winRate", <<>>)

\* The number of seats of the assembly the seat shares are taken of.
totalSeats == 234

\* (won / totalSeats) / (votes / totalVotes) for a party with won seats, in
\* hundredths.
conversionOf(won, votes, totalVotes) ==
    LET share == ratio(votes, totalVotes, 1)
    IN  CASE share = NaN -> NaN
          [] share = Infinity -> Num(0)
          [] votes.n = 0 -> Infinity
          [] OTHER -> ratio(Num(won * totalVotes.n),
                            Num(totalSeats * votes.n), 100)

\* AdvancedVisuals.voteVsSeatData: for each party with a seat, its share of
\* all votes and of the 234 seats in hundredths of a percent and the ratio
\* of the two in hundredths, in falling seatShare.
voteVsSeatData(rows) ==
    LET totalVotes == sumField(rows, "Votes", Num(0))
        winners == SelectSeq(rows, isWinner)
        parties == ownKeys(keysOf(winners, "Party"), <<>>)
        seatsOf(p) ==
            LET isOf(w) == jsString(w.Party) = p
            IN  Len(SelectSeq(winners, isOf))
        votesOf(p) ==
            LET isOf(d) == jsString(d.Party) = p
            IN  sumField(SelectSeq(rows, isOf), "Votes", Num(0))
        entries == [k \in 1..Len(parties) |->
                       [name |-> parties[k],
                        voteShare |-> ratio(votesOf(parties[k]), totalVotes,
                                            10000),
                        seatShare |-> ratio(Num(seatsOf(parties[k])),
                                            Num(totalSeats), 10000),
                        conversion |-> conversionOf(seatsOf(parties[k]),
                                                    votesOf(parties[k]),
                                                    totalVotes)]]
    IN  sortDesc(entries, "seatShare", <<>>)

\* AdvancedVisuals.ageData: the average age of the winners of each party
\* whose age is given and above 20, in tenths of a year, in falling order.
ageData(rows) ==
    LET aged(w) == isWinner(w) /\ Truthy(w.Age) /\ w.Age.t = "number"
                      /\ w.Age.n > 20
        counted == SelectSeq(rows, aged)
        parties == ownKeys(keysOf(counted, "Party"), <<>>)
        ofParty(p) ==
            LET isOf(w) == jsString(w.Party) = p
            IN  SelectSeq(counted, isOf)
        entries == [k \in 1..Len(parties) |->
                       [name |-> parties[k],
                        avgAge |-> ratio(sumField(ofParty(parties[k]), "Age",
                                                  Num(0)),
                                         Num(Len(ofParty(parties[k]))), 10)]]
    IN  sortDesc(entries, "avgAge", <<>>)

\* The order educationData lists the education levels in.
order ==
    <<<<"D", "o", "c", "t", "o", "r", "a", "t", "e">>, <<"P", "o", "s", "t", " ", "G", "r", "a", "d", "u", "a", "t", "e">>, <<"G", "r", "a", "d", "u", "a", "t", "e", " ", "P", "r", "o", "f", "e", "s", "s", "i", "o", "n", "a", "l">>, <<"G", "r", "a", "d", "u", "a", "t", "e">>,
      <<"1", "2", "t", "h", " ", "P", "a", "s", "s">>, <<"1", "0", "t", "h", " ", "P", "a", "s", "s">>, <<"8", "t", "h", " ", "P", "a", "s", "s">>, <<"5", "t", "h", " ", "P", "a", "s", "s">>, <<"L", "i", "t", "e", "r", "a", "t", "e">>,
      <<"O", "t", "h", "e", "r", "s">>>>

\* order.indexOf(name), 99 standing for a name that is not in the list.
orderIndex(name) ==
    IF \E i \in 1..Len(order) : order[i] = name
    THEN (CHOOSE i \in 1..Len(order) : order[i] = name) - 1
    ELSE 99

\* x put into an array sorted by rising place in order, after its equals.
RECURSIVE insertByOrder(_, _)
insertByOrder(sorted, x) ==
    IF sorted = <<>> THEN <<x>>
    ELSE IF orderIndex(x.name) < orderIndex(sorted[Len(sorted)].name)
         THEN Append(insertByOrder(SubSeq(sorted, 1, Len(sorted) - 1), x),
                     sorted[Len(sorted)])
         ELSE Append(sorted, x)

RECURSIVE sortByOrder(_, _)
sortByOrder(arr, done) ==
    IF arr = <<>> THEN done
    ELSE sortByOrder(Tail(arr), insertByOrder(done, arr[1]))

\* The value of a field, or 'Unknown' for a falsy one, as a property key.
keysOrUnknown(rows, field) ==
    [i \in 1..Len(rows) |->
        jsString(JsOr(rows[i][field], Str(<<"U", "n", "k", "n", "o", "w", "n">>)))]

\* AdvancedVisuals.educationData: the winners of each education level, in
\* the order of the list.
educationData(rows) ==
    sortByOrder(tally(keysOrUnknown(SelectSeq(rows, isWinner),
                                    "MyNeta_education")), <<>>)

\* AdvancedVisuals.professionData: the five professions with the most
\* winners, in falling order.
professionData(rows) ==
    slice(sortByValue(tally(keysOrUnknown(SelectSeq(rows, isWinner),
                                          "TCPD_Prof_Main")), <<>>), 5)

\* Dashboard.voteShare: the share of each party in the votes that are
\* given, in hundredths of a percent, the eight largest in falling order.
voteShare(rows) ==
    LET hasVotes(d) == Truthy(d.Votes)
        voted == SelectSeq(rows, hasVotes)
        totalTotalVotes == sumField(voted, "Votes", Num(0))
        parties == ownKeys(keysOf(voted, "Party"), <<>>)
        votesOf(p) ==
            LET isOf(d) == jsString(d.Party) = p
            IN  sumField(SelectSeq(voted, isOf), "Votes", Num(0))
        entries == [k \in 1..Len(parties) |->
                       [name |-> parties[k],
                        value |-> ratio(votesOf(parties[k]), totalTotalVotes,
                                        10000)]]
    IN  slice(sortDesc(entries, "value", <<>>), 8)

\* The average margin as if the sum were divided by the number of winners.
averageMarginUnguarded(filtered) ==
    ratio(sumField([i \in 1..Len(filtered) |->
                       [Margin |-> JsOr(filtered[i].Margin, Num(0))]],
                   "Margin", Num(0)),
          Num(Len(filtered)), 1)

\* The average margin of the summary: the sum of (Margin || 0) over
\* Math.max(1, filteredData.length), to a whole number.
averageMargin(filtered) ==
    ratio(sumField([i \in 1..Len(filtered) |->
                       [Margin |-> JsOr(filtered[i].Margin, Num(0))]],
                   "Margin", Num(0)),
          Num(IF Len(filtered) > 1 THEN Len(filtered) ELSE 1), 1)

\* The summary panel of the map over the filtered winners: their number,
\* their votes in hundredths of a million, the average margin, and the five
\* parties with the most of them, each with its width in percent.
summary(filtered) ==
    LET top == slice(sortByValue(tally(keysOf(filtered, "Party")), <<>>), 5)
    IN  [count |-> Len(filtered),
         totalVotes |-> ratio(sumField(filtered, "Votes", Num(0)),
                              Num(1000000), 100),
         averageMargin |-> averageMargin(filtered),
         parties |-> [k \in 1..Len(top) |->
                         [name |-> top[k].name,
                          value |-> top[k].value,
                          width |-> ratio(Num(top[k].value),
                                          Num(Len(filtered)), 100)]]]

\* Everything Dashboard (with AdvancedVisuals in it) and the map summary
\* compute on a render.
reducers(rows, filtered) ==
    [partyWins |-> partyWins(rows),
     allianceWins |-> allianceWins(rows),
     voteShare |-> voteShare(rows),
     districtData |-> districtData(rows),
     strikeRateData |-> strikeRateData(rows),
     voteVsSeatData |-> voteVsSeatData(rows),
     ageData |-> ageData(rows),
     educationData |-> educationData(rows),
     professionData |-> professionData(rows),
     summary |-> summary(filtered)]

-----------------------------------------------------------------------------
(* App: the enrichment of the parsed rows *)

UpperChar(c) ==
    IF \E i \in 1..Len(LowerCase) : LowerCase[i] = c
    THEN UpperCase[CHOOSE i \in 1..Len(LowerCase) : LowerCase[i] = c]
    ELSE c

\* String.prototype.toUpperCase
toUpperCase(s) == [i \in 1..Len(s) |-> UpperChar(s[i])]

\* The lookup tables of data/tamilData, as functions from their keys; the
\* labels of data/translations for the two sexes.
constituencyTranslations ==
    [k \in {<<"C", "H", "E", "N", "N", "A", "I">>, <<"H", "A", "R", "U", "R", " ", "(", "S", "C", ")">>} |->
        IF k = <<"C", "H", "E", "N", "N", "A", "I">> THEN ta_Chennai ELSE ta_Harur]

districtTranslations == [k \in {s_Chennai} |-> ta_Chennai]

partyTranslations ==
    [k \in {s_DMK, s_ADMK} |-> IF k = s_DMK THEN ta_DMK ELSE ta_ADMK]

educationTranslations == [k \in {s_Graduate} |-> ta_Graduate]

professionTranslations == [k \in {<<"A", "g", "r", "i", "c", "u", "l", "t", "u", "r", "e">>} |-> <<"#vi", "#va">>]

Male == <<"#aa", "#nn">>

Female == <<"#pe", "#nn">>

\* table[key]: the entry, or undefined when the table has none; key is made
\* a property key first.
tableGet(table, key) ==
    IF jsString(key) \in DOMAIN table THEN Str(table[jsString(key)])
    ELSE Undefined

\* item.Constituency_Name?.toUpperCase(): undefined for null and undefined.
upperName(item) ==
    IF item.Constituency_Name.t = "string"
    THEN Str(toUpperCase(item.Constituency_Name.s))
    ELSE Undefined

\* The fields enrichment attaches.
LocalizedFields ==
    {"Constituency_Name_TA", "District_Name_TA", "Party_TA",
     "MyNeta_education_TA", "TCPD_Prof_Main_TA", "Sex_TA"}

\* The base field an attached field is made from.
baseOf(item, f) ==
    CASE f = "Constituency_Name_TA" -> item.Constituency_Name
      [] f = "District_Name_TA" -> item.District_Name
      [] f = "Party_TA" -> item.Party
      [] f = "MyNeta_education_TA" -> item.MyNeta_education
      [] f = "TCPD_Prof_Main_TA" -> item.TCPD_Prof_Main
      [] OTHER -> item.Sex

\* The table entry an attached field is looked up as; the sex has the two
\* labels for a table.
lookupOf(item, f) ==
    CASE f = "Constituency_Name_TA" ->
            tableGet(constituencyTranslations, upperName(item))
      [] f = "District_Name_TA" ->
            tableGet(districtTranslations, item.District_Name)
      [] f = "Party_TA" -> tableGet(partyTranslations, item.Party)
      [] f = "MyNeta_education_TA" ->
            tableGet(educationTranslations, item.MyNeta_education)
      [] f = "TCPD_Prof_Main_TA" ->
            tableGet(professionTranslations, item.TCPD_Prof_Main)
      [] OTHER ->
            IF StrictEq(item.Sex, Str(<<"M">>)) THEN Str(Male)
            ELSE IF StrictEq(item.Sex, Str(<<"F">>)) THEN Str(Female)
            ELSE Undefined

\* The attached field as if it were the table entry alone.
localizedWithoutFallback(item, f) == lookupOf(item, f)

\* The value enrichment gives an attached field: table[key] || base, and
\* for the sex the label of M or F or else the value itself.
localized(item, f) ==
    JsOr(lookupOf(item, f), baseOf(item, f))

\* {...item, Constituency_Name_TA: ..., ..., Sex_TA: ...}
enrich(item) ==
    [f \in DOMAIN item \cup LocalizedFields |->
        IF f \in LocalizedFields THEN localized(item, f) ELSE item[f]]

\* A name that is no text, null or undefined has no toUpperCase: the call
\* throws a TypeError inside the try.
enrichThrows(rows) ==
    \E i \in 1..Len(rows) :
        rows[i].Constituency_Name.t \in {"number", "boolean"}

\* result.map(item => ...)
enrichedData(rows) == [i \in 1..Len(rows) |-> enrich(rows[i])]

\* What App renders: the spinner while loading, else the selected view.
rendered(state) == IF state.loading THEN "Loading" ELSE state.view

\* What ConstituencyMap renders once mounted.
mapRendered(state) ==
    IF state.loading THEN "Loading Map..."
    ELSE IF ~state.geoJsonData THEN "Failed to load map data."
    ELSE "map"

-----------------------------------------------------------------------------
(* ConstituencyMap: the key of the GeoJSON layer *)

\* The text of an option value the model holds as a whole string.
optionText(v) ==
    CASE v = "All" -> <<"A", "l", "l">>
      [] v = "DMK+" -> <<"D", "M", "K", "+">>
      [] v = "ADMK+" -> <<"A", "D", "M", "K", "+">>
      [] v = "Others" -> <<"O", "t", "h", "e", "r", "s">>
      [] v = "High" -> <<"H", "i", "g", "h">>
      [] v = "Medium" -> <<"M", "e", "d", "i", "u", "m">>
      [] v = "Low" -> <<"L", "o", "w">>
      [] v = "winner" -> <<"w", "i", "n", "n", "e", "r">>
      [] v = "runnerUp" -> <<"r", "u", "n", "n", "e", "r", "U", "p">>
      [] v = "margin" -> <<"m", "a", "r", "g", "i", "n">>
      [] v = "voteShare" -> <<"v", "o", "t", "e", "S", "h", "a", "r", "e">>
      [] OTHER -> <<"t", "u", "r", "n", "o", "u", "t">>

\* The key as if the search term were not part of it.
layerKeyWithoutSearch(st, mode) ==
    optionText(mode) \o <<"-">> \o optionText(st.selectedAlliance) \o <<"-">>
    \o st.selectedParty \o <<"-">> \o optionText(st.marginRange) \o <<"-">>
    \o st.constituencyType \o <<"-">> \o st.selectedGender \o <<"-">>
    \o st.selectedDistrict \o <<"-">>

\* The key of <GeoJSON>: the view mode and the seven filters joined by '-'.
\* React mounts a new layer, which styles and labels every feature anew,
\* whenever the key differs from the one of the last render.
layerKey(st, mode) ==
    optionText(mode) \o <<"-">> \o optionText(st.selectedAlliance) \o <<"-">>
    \o st.selectedParty \o <<"-">> \o optionText(st.marginRange) \o <<"-">>
    \o st.constituencyType \o <<"-">> \o st.selectedGender \o <<"-">>
    \o st.selectedDistrict \o <<"-">> \o st.searchTerm

-----------------------------------------------------------------------------
(* MasterSheet: the options of the selects, the handlers, the pages *)

\* The options of the district select: the districts of the data, by their
\* localized name.
districts(rows) ==
    {JsOr(rows[i].District_Name_TA, rows[i].District_Name).s :
        i \in {j \in 1..Len(rows) :
                  JsOr(rows[j].District_Name_TA, rows[j].District_Name).t
                      = "string"}}

\* The options of the constituency select: the constituencies of the data,
\* or those of the selected district when one is selected.
constituencies(rows, selectedDistrict) ==
    LET inDistrict(item) ==
            StrictEq(JsOr(item.District_Name_TA, item.District_Name),
                     Str(selectedDistrict))
        filtered == IF selectedDistrict # s_All
                    THEN SelectSeq(rows, inDistrict) ELSE rows
    IN  {JsOr(filtered[i].Constituency_Name_TA,
              filtered[i].Constituency_Name).s : i \in 1..Len(filtered)}

\* The search box: the term is set and the page goes back to 1.
afterSearchChange(st, v) == [st EXCEPT !.searchTerm = v, !.currentPage = 1]

\* The district select as if it left the constituency selected.
afterDistrictChangeKeeping(st, v) == [st EXCEPT !.selectedDistrict = v]

\* The district select: the district is set and the constituency reset.
afterDistrictChange(st, v) ==
    [st EXCEPT !.selectedDistrict = v, !.selectedConstituency = s_All]

\* handleSort: ascending, or descending when the key is already sorted
\* ascending.
afterSort(st, key) ==
    [st EXCEPT !.sortConfig =
        <<[key |-> key,
           direction |->
               IF /\ st.sortConfig # <<>>
                  /\ st.sortConfig[1].key = key
                  /\ st.sortConfig[1].direction = "asc"
               THEN "desc" ELSE "asc"]>>]

\* The reset button: every filter and the search; the sort and the page
\* are not written.
afterReset(st) ==
    [DefaultSheet EXCEPT !.sortConfig = st.sortConfig,
                         !.currentPage = st.currentPage]

itemsPerPage == 20

\* Math.ceil(processedData.length / itemsPerPage)
totalPages(result) == (Len(result) + itemsPerPage - 1) \div itemsPerPage

\* processedData.slice((currentPage - 1) * itemsPerPage,
\*                     currentPage * itemsPerPage)
currentData(result, page) ==
    LET from == IF page < 1 THEN Len(result) + (page - 1) * itemsPerPage
                ELSE (page - 1) * itemsPerPage
        start == IF from < 0 THEN 0 ELSE from
        to == IF page * itemsPerPage > Len(result) THEN Len(result)
              ELSE page * itemsPerPage
    IN  SubSeq(result, start + 1, to)

\* setCurrentPage(p => Math.max(1, p - 1))
afterPrevious(st) ==
    [st EXCEPT !.currentPage = IF @ - 1 > 1 THEN @ - 1 ELSE 1]

\* setCurrentPage(p => Math.min(totalPages, p + 1))
afterNext(st, pages) ==
    [st EXCEPT !.currentPage = IF pages < @ + 1 THEN pages ELSE @ + 1]
-----------------------------------------------------------------------------
(* Inputs *)

\* The characters the short names are made of.
Alphabet == {"(", ")", "s", "c", "t", "S", " ", "a"}

RECURSIVE Texts(_)
Texts(n) ==
    IF n = 0 THEN {<<>>}
    ELSE Texts(n - 1) \cup {Append(s, c) : s \in Texts(n - 1), c \in Alphabet}

\* Names of the boundary data set and names close to them.
RealNames ==
    {<<"C", "h", "e", "n", "n", "a", "i">>, <<"C", "h", "e", "n", "n", "a", "i", " ", "(", "S", "C", ")">>, <<"C", "h", "e", "n", "n", "a", "i", "(", "S", "C">>, <<"c", "h", "e", "n", "n", "a", "i", " ", "(", "s", "t", ")">>,
     <<"C", "h", "e", "n", "n", "a", "i", " ", "(", "S", "T">>, <<" ", "H", "A", "R", "U", "R", " ">>, <<"H", "a", "r", "u", "r", "(", "S", "C", ")">>, <<"Y", "e", "r", "c", "a", "u", "d", " ", "(", "S", "T", ")">>,
     <<"G", "u", "m", "m", "i", "d", "i", "p", "o", "o", "n", "d", "i">>, <<"K", "i", "l", "v", "a", "i", "t", "h", "i", "n", "a", "n", "k", "u", "p", "p", "a", "m", "(", "S", "C">>, <<"C", "o", "i", "m", "b", "a", "t", "o", "r", "e", "(", "N", "o", "r", "t", "h", ")">>,
     <<"D", "r", ".", "R", "a", "d", "h", "a", "k", "r", "i", "s", "h", "n", "a", "n", " ", "N", "a", "g", "a">>, <<"T", "i", "r", "u", "c", "h", "i", "r", "a", "p", "p", "a", "l", "l", "i">>, <<"T", "I", "R", "U", "C", "H", "I", "R", "A", "P", "P", "A", "L", "L", "I", " ", "(", "W", "E", "S", "T", ")">>,
     <<"T", "i", "r", "u", "c", "h", "i", "r", "a", "p", "p", "a", "l", "l", "i", "(", "S", "C", ")">>, <<"T", "i", "r", "u", "c", "h", "i", "r", "a", "p", "a", "l", "l", "i">>, <<"C", "o", "n", "s", "t", "r", "u", "c", "t", "o", "r">>,
     <<"_", "_", "p", "r", "o", "t", "o", "_", "_", " ", "(", "S", "C", ")">>, <<"S", "a", "l", "e", "m">>}

Names == Texts(MaxNameLen) \cup RealNames

\* A feature's name: a text, or missing.
NameValues == {Str(n) : n \in Names} \cup {Null, Undefined}

\* A feature's number: the two halves of Tiruchirappalli, another
\* constituency, or missing.
AcNos == {Num(140), Num(141), Num(7), Undefined}

\* The boundary file writes the properties in upper or in lower case.
MkFeature(name, acNo, upper) ==
    [properties |->
        IF upper
        THEN [AC_NAME |-> name, ac_name |-> Undefined,
              AC_NO |-> acNo, ac_no |-> Undefined]
        ELSE [AC_NAME |-> Undefined, ac_name |-> name,
              AC_NO |-> Undefined, ac_no |-> acNo]]

Features ==
    {MkFeature(name, acNo, upper) :
        name \in NameValues, acNo \in AcNos, upper \in BOOLEAN}

\* The features styled over a record set.
MapFeatures ==
    {MkFeature(Str(name), acNo, TRUE) :
        name \in {<<"C", "h", "e", "n", "n", "a", "i">>, <<"C", "h", "e", "n", "n", "a", "i", " ", "(", "S", "C", ")">>, <<"C", "H", "E", "N", "N", "A", "I", "(", "S", "T", ")">>, <<" ", "H", "A", "R", "U", "R", " ">>,
                  <<"H", "a", "r", "u", "r", "(", "S", "C">>, <<"Y", "e", "r", "c", "a", "u", "d", " ", "(", "S", "T">>, <<"S", "a", "l", "e", "m">>},
        acNo \in {Num(7), Undefined}}

\* One facet of the map set to a value of its control.
MapSettings ==
    {<<"selectedAlliance", v>> : v \in {"All", "DMK+", "ADMK+", "Others"}}
    \cup {<<"selectedParty", v>> : v \in {s_DMK, s_ADMK, s_AMMK}}
    \cup {<<"marginRange", v>> : v \in {"High", "Medium", "Low"}}
    \cup {<<"constituencyType", v>> : v \in {<<"G", "E", "N">>, <<"S", "C">>, <<"S", "T">>}}
    \cup {<<"selectedGender", v>> : v \in {<<"M">>, <<"F">>}}
    \cup {<<"selectedDistrict", v>> : v \in {s_Chennai, s_Dharmapuri}}
    \cup {<<"searchTerm", v>> : v \in {<<"C", "H", "E", "N">>, <<"#ruu">>}}

MapStates == {[DefaultMap EXCEPT ![f[1]] = f[2]] : f \in MapSettings}

\* One facet of the master sheet set to a value of its control.
SheetSettings ==
    {<<"searchTerm", v>> : v \in {<<>>, <<"C", "H", "E", "N">>, <<"#ka">>}}
    \cup {<<"selectedDistrict", v>> : v \in {ta_Chennai, s_Dharmapuri}}
    \cup {<<"selectedConstituency", v>> : v \in {ta_Chennai, ta_Harur}}
    \cup {<<"selectedParty", v>> : v \in {ta_DMK, s_NTK}}
    \cup {<<"selectedPosition", v>> :
            v \in {<<"1">>, <<"2">>, <<"3">>, <<"D", "e", "p", "o", "s", "i", "t", "L", "o", "s", "t">>}}
    \cup {<<"constituencyType", v>> : v \in {<<"G", "E", "N">>, <<"S", "C">>, <<"S", "T">>}}
    \cup {<<"selectedYear", v>> : v \in {<<"2", "0", "1", "6">>, <<"2", "0", "2", "1">>}}
    \cup {<<"ageRange", v>> : v \in {"25-40", "41-60", "61+"}}
    \cup {<<"selectedGender", v>> : v \in {<<"M">>, <<"F">>}}
    \cup {<<"marginRange", v>> : v \in {"High", "Medium", "Low"}}
    \cup {<<"voteShareRange", v>> : v \in {"High", "Medium", "Low"}}
    \cup {<<"selectedAlliance", v>> : v \in {"DMK+", "ADMK+", "Others"}}
    \cup {<<"voteCountRange", v>> :
            v \in {">1L", "50k-1L", "10k-50k", "<10k"}}
    \cup {<<"selectedCategory", v>> :
            v \in {"Incumbent", "Turncoat", "Recontest"}}
    \cup {<<"selectedEducation", v>> : v \in {ta_Graduate, s_TenthPass}}
    \cup {<<"winnersOnly", v>> : v \in {TRUE}}
    \cup {<<"sortConfig", v>> :
            v \in {<<[key |-> k, direction |-> d]>> :
                      k \in {"Margin", "Party"}, d \in {"asc", "desc"}}}

\* The sheet state with one setting made.
With(st, setting) == [st EXCEPT ![setting[1]] = setting[2]]

\* The default state, every state with one facet set and every state with
\* two facets set.
SheetStates ==
    {With(With(DefaultSheet, f), g) : f \in SheetSettings, g \in SheetSettings}

\* The margin facet alone.
MarginStates ==
    {[DefaultSheet EXCEPT !.marginRange = v] :
        v \in {"All", "High", "Medium", "Low"}}

NoFeature == MkFeature(Undefined, Undefined, TRUE)

EmptyMap == [k \in {} |-> 0]

-----------------------------------------------------------------------------
(* Operations *)

\* What every initial state has: nothing has run yet.
Fresh ==
    /\ processed = <<>>
    /\ resultsMap = EmptyMap
    /\ normalizedAcName = Undefined
    /\ dataObj = <<>>
    /\ seats = EmptyMap
    /\ styled = <<>>
    /\ tooltip = <<>>
    /\ statsData = <<>>
    /\ charts = <<>>
    /\ steps = 0
    /\ layer = <<>>
    /\ raw = <<>>
    /\ app = <<>>
    /\ geo = <<>>
    /\ pc = {}

\* ConstituencyMap renders and Leaflet styles the feature: resultsMap is
\* recomputed from data and the filter state, the feature's name is
\* normalized and looked up, and the feature gets its style and its tooltip.
Style ==
    /\ "style" \notin pc
    /\ resultsMap' = buildResultsMap(data, cmap)
    /\ normalizedAcName' = getNormalizedName(feature)
    /\ dataObj' = resultsMapGet(resultsMap', normalizedAcName')
    /\ styled' = <<style(feature, resultsMap', viewMode)>>
    /\ tooltip' = <<onEachFeature(feature, resultsMap')>>
    /\ pc' = pc \cup {"style"}
    /\ UNCHANGED <<data, sheet, cmap, feature, processed, seats, viewMode,
                   statsData, charts, steps, layer, raw, app, geo>>

\* MasterSheet renders: processedData and statsData are recomputed from
\* data and the filter state, and the seats of the retained rows are counted.
Render ==
    /\ processed' = processedData(data, sheet)
    /\ seats' = partyWins(processed')
    /\ statsData' = computeStats(data, processed')
    /\ data' = dataAfter(data, sheet)
    /\ UNCHANGED <<sheet, cmap, feature, resultsMap, normalizedAcName,
                   dataObj, viewMode, styled, tooltip, charts, steps, layer,
                   raw, app, geo>>

\* The first render.
Apply ==
    /\ "apply" \notin pc
    /\ Render
    /\ pc' = pc \cup {"apply"}

\* A later render with the same props and state: the memos are evaluated
\* again.
Recompute ==
    /\ "apply" \in pc
    /\ "recompute" \notin pc
    /\ Render
    /\ pc' = pc \cup {"recompute"}

\* The normalizer over every feature.
InitNormalizer ==
    /\ viewMode = "winner"
    /\ data = <<>>
    /\ sheet = DefaultSheet
    /\ cmap = DefaultMap
    /\ feature \in Features
    /\ Fresh

SpecNormalizer == InitNormalizer /\ [][Style]_vars

\* The reconciliation index over every record set and map filter.
InitIndex ==
    /\ viewMode = "winner"
    /\ data \in DataSets
    /\ sheet = DefaultSheet
    /\ cmap \in MapStates
    /\ feature \in MapFeatures
    /\ Fresh

SpecIndex == InitIndex /\ [][Style]_vars

\* The filter pipeline over every record set and sheet state.
InitApply ==
    /\ viewMode = "winner"
    /\ data \in DataSets
    /\ sheet \in SheetStates
    /\ cmap = DefaultMap
    /\ feature = NoFeature
    /\ Fresh

SpecApply == InitApply /\ [][Apply]_vars

\* The map filters the view modes are drawn with.
ViewMapStates == {DefaultMap, [DefaultMap EXCEPT !.selectedParty = s_DMK]}

\* The style and the tooltip in every view mode.
InitView ==
    /\ viewMode \in ViewModes
    /\ data \in DataSets
    /\ sheet = DefaultSheet
    /\ cmap \in ViewMapStates
    /\ feature \in MapFeatures
    /\ Fresh

SpecView == InitView /\ [][Style]_vars

\* The default state and every state with one setting made.
SingleSheetStates == {With(DefaultSheet, f) : f \in SheetSettings}

\* The pipeline and its aggregates evaluated twice.
InitPure ==
    /\ viewMode = "winner"
    /\ data \in DataSets
    /\ sheet \in SingleSheetStates
    /\ cmap = DefaultMap
    /\ feature = NoFeature
    /\ Fresh

SpecPure == InitPure /\ [][Apply \/ Recompute]_vars

\* End to end: a record set, a feature to reconcile and a margin bucket.
Init ==
    /\ viewMode = "winner"
    /\ data \in DataSets
    /\ sheet \in MarginStates
    /\ cmap = DefaultMap
    /\ feature \in MapFeatures
    /\ Fresh

Next == Style \/ Apply

Spec == Init /\ [][Next]_vars


-----------------------------------------------------------------------------
(* The reducers on a render *)

\* A sequence in the opposite order.
reversed(s) == [i \in 1..Len(s) |-> s[Len(s) + 1 - i]]

\* The record sets of the corpus in file order and in the opposite order.
ChartSets == DataSets \cup {WithRows(reversed(d)) : d \in DataSets}

\* Dashboard (with AdvancedVisuals) and the summary panel of the map render:
\* every reducer is evaluated on data, the summary on the filtered winners.
Aggregate ==
    /\ "aggregate" \notin pc
    /\ charts' = <<reducers(data, filteredData(data, cmap))>>
    /\ pc' = pc \cup {"aggregate"}
    /\ UNCHANGED <<data, sheet, cmap, feature, processed, resultsMap,
                   normalizedAcName, dataObj, seats, viewMode, styled,
                   tooltip, statsData, steps, layer, raw, app, geo>>

\* The reducers of the three views over every record set, in both orders.
InitCharts ==
    /\ viewMode = "winner"
    /\ data \in ChartSets
    /\ sheet \in MarginStates
    /\ cmap \in ViewMapStates
    /\ feature = NoFeature
    /\ Fresh

SpecCharts == InitCharts /\ [][Aggregate \/ Apply]_vars

-----------------------------------------------------------------------------
(* App: loading the data, choosing the view, loading the map *)

\* The fields of a parsed row: those of a record but the attached ones.
BaseFields == DOMAIN c1 \ LocalizedFields

\* The rows papaparse gives for a record set: no attached field yet.
parsed(rows) == [i \in 1..Len(rows) |-> [f \in BaseFields |-> rows[i][f]]]

\* A row whose constituency name is all digits: dynamicTyping makes it a
\* number.
NumericNameRow == [c1 EXCEPT !.Constituency_Name = Num(123)]

\* How the two requests can settle: the CSV parse resolves with rows or
\* rejects, the GeoJSON fetch resolves or rejects.
Settlements ==
    {[csv |-> <<d>>, geojson |-> g] :
        d \in {parsed(s) : s \in DataSets \cup {WithRows(<<c6, NumericNameRow>>)}},
        g \in BOOLEAN}
    \cup {[csv |-> <<>>, geojson |-> g] : g \in BOOLEAN}

Views == {"dashboard", "master", "map"}

\* ConstituencyMap mounts when the map view is first rendered and is
\* unmounted with it; a mount starts the fetch.
mapAfter(state, old) ==
    IF rendered(state) # "map" THEN <<>>
    ELSE IF old # <<>> THEN old
    ELSE <<[loading |-> TRUE, geoJsonData |-> FALSE]>>

AppFrame ==
    UNCHANGED <<sheet, cmap, feature, processed, resultsMap,
                normalizedAcName, dataObj, seats, viewMode, styled, tooltip,
                statsData, charts, steps, layer, raw>>

\* fetchData, the promise resolved: the rows are enriched and stored; a
\* throw in the enrichment is caught and leaves data as it was; finally
\* loading is set to false.
FetchResolved ==
    /\ app.loading
    /\ raw.csv # <<>>
    /\ data' = IF enrichThrows(raw.csv[1]) THEN data
               ELSE enrichedData(raw.csv[1])
    /\ app' = [app EXCEPT !.loading = FALSE]
    /\ geo' = mapAfter(app', geo)
    /\ pc' = pc \cup {IF enrichThrows(raw.csv[1]) THEN "caught" ELSE "set"}
    /\ AppFrame

\* fetchData, the promise rejected: the error is caught and logged; finally
\* loading is set to false.
FetchRejected ==
    /\ app.loading
    /\ raw.csv = <<>>
    /\ app' = [app EXCEPT !.loading = FALSE]
    /\ geo' = mapAfter(app', geo)
    /\ pc' = pc \cup {"caught"}
    /\ UNCHANGED data
    /\ AppFrame

\* A view is chosen in the Navbar, which is there once loading is over.
setView(v) ==
    /\ ~app.loading
    /\ app' = [app EXCEPT !.view = v]
    /\ geo' = mapAfter(app', geo)
    /\ UNCHANGED <<data, pc>>
    /\ AppFrame

SetView == \E v \in Views : setView(v)

\* The GeoJSON fetch of a mounted map resolved.
GeoResolved ==
    /\ geo # <<>>
    /\ geo[1].loading
    /\ raw.geojson
    /\ geo' = <<[loading |-> FALSE, geoJsonData |-> TRUE]>>
    /\ UNCHANGED <<data, app, pc>>
    /\ AppFrame

\* The GeoJSON fetch of a mounted map rejected.
GeoRejected ==
    /\ geo # <<>>
    /\ geo[1].loading
    /\ ~raw.geojson
    /\ geo' = <<[loading |-> FALSE, geoJsonData |-> FALSE]>>
    /\ UNCHANGED <<data, app, pc>>
    /\ AppFrame

\* App is mounted: loading, no data, the dashboard selected.
InitApp ==
    /\ viewMode = "winner"
    /\ data = <<>>
    /\ sheet = DefaultSheet
    /\ cmap = DefaultMap
    /\ feature = NoFeature
    /\ processed = <<>>
    /\ resultsMap = EmptyMap
    /\ normalizedAcName = Undefined
    /\ dataObj = <<>>
    /\ seats = EmptyMap
    /\ styled = <<>>
    /\ tooltip = <<>>
    /\ statsData = <<>>
    /\ charts = <<>>
    /\ steps = 0
    /\ layer = <<>>
    /\ raw \in Settlements
    /\ app = [loading |-> TRUE, view |-> "dashboard"]
    /\ geo = <<>>
    /\ pc = {}

SpecApp ==
    InitApp /\ [][FetchResolved \/ FetchRejected \/ SetView \/ GeoResolved
                  \/ GeoRejected]_vars

-----------------------------------------------------------------------------
(* ConstituencyMap: the user's actions *)

\* The record sets the user's actions are followed on.
SessionSets ==
    {WithRows(Corpus), WithRows(SubSeq(Corpus, 1, 5)),
     WithRows(<<c6, c7, c8>>)}

\* The layer React mounts for a render.
mounted(st, mode, index) == <<[key |-> layerKey(st, mode), index |-> index]>>

\* The controls are rendered with the map, so a handler runs once the
\* layer is mounted.  It has set the state to st and mode and the component
\* renders: the resultsMap memo is computed again when a filter changed,
\* and the layer is mounted again when its key changed, with style and
\* onEachFeature reading the resultsMap of this render.
MapUpdate(st, mode) ==
    /\ cmap' = st
    /\ viewMode' = mode
    /\ resultsMap' = IF st = cmap THEN resultsMap
                     ELSE buildResultsMap(data, st)
    /\ layer' = IF layer[1].key = layerKey(st, mode) THEN layer
                ELSE mounted(st, mode, resultsMap')
    /\ UNCHANGED <<data, sheet, feature, processed, normalizedAcName,
                   dataObj, seats, styled, tooltip, statsData, charts, steps,
                   raw, app, geo, pc>>

onSearchTermChange ==
    /\ layer # <<>>
    /\ \E v \in {<<>>, <<"C", "H", "E", "N">>} :
           MapUpdate([cmap EXCEPT !.searchTerm = v], viewMode)

onDistrictChange ==
    /\ layer # <<>>
    /\ \E v \in {s_All, s_Chennai} :
           MapUpdate([cmap EXCEPT !.selectedDistrict = v], viewMode)

onAllianceChange ==
    /\ layer # <<>>
    /\ \E v \in {"All", "DMK+", "ADMK+", "Others"} :
           MapUpdate([cmap EXCEPT !.selectedAlliance = v], viewMode)

onPartyChange ==
    /\ layer # <<>>
    /\ \E v \in {s_All, s_DMK, s_ADMK} :
           MapUpdate([cmap EXCEPT !.selectedParty = v], viewMode)

onMarginChange ==
    /\ layer # <<>>
    /\ \E v \in {"All", "High", "Low"} :
           MapUpdate([cmap EXCEPT !.marginRange = v], viewMode)

onTypeChange ==
    /\ layer # <<>>
    /\ \E v \in {s_All, <<"S", "C">>} :
           MapUpdate([cmap EXCEPT !.constituencyType = v], viewMode)

onGenderChange ==
    /\ layer # <<>>
    /\ \E v \in {s_All, <<"F">>} :
           MapUpdate([cmap EXCEPT !.selectedGender = v], viewMode)

onViewModeChange ==
    /\ layer # <<>>
    /\ \E v \in {"winner", "margin"} : MapUpdate(cmap, v)

\* The reset button of the map.
onMapReset ==
    /\ layer # <<>>
    /\ MapUpdate(DefaultMap, "winner")

\* The map is shown with its default filters: the first render has built
\* the index and mounted the layer.
InitMap ==
    /\ viewMode = "winner"
    /\ data \in SessionSets
    /\ sheet = DefaultSheet
    /\ cmap = DefaultMap
    /\ feature = NoFeature
    /\ processed = <<>>
    /\ resultsMap = buildResultsMap(data, DefaultMap)
    /\ normalizedAcName = Undefined
    /\ dataObj = <<>>
    /\ seats = EmptyMap
    /\ styled = <<>>
    /\ tooltip = <<>>
    /\ statsData = <<>>
    /\ charts = <<>>
    /\ steps = 0
    /\ layer = mounted(DefaultMap, "winner", resultsMap)
    /\ raw = <<>>
    /\ app = <<>>
    /\ geo = <<>>
    /\ pc = {}

SpecMap ==
    InitMap /\ [][onSearchTermChange \/ onDistrictChange \/ onAllianceChange
                  \/ onPartyChange \/ onMarginChange \/ onTypeChange
                  \/ onGenderChange \/ onViewModeChange \/ onMapReset]_vars

-----------------------------------------------------------------------------
(* MasterSheet: the user's actions *)

\* The whole corpus, and a record set of more than one page.
SheetSets == {WithRows(Corpus), WithRows(Corpus \o Corpus \o <<c1>>)}

\* The values chosen in the selects whose handler only sets its state.
FacetOptions ==
    {<<"selectedParty", v>> : v \in {s_All, s_NTK}}
    \cup {<<"selectedPosition", v>> : v \in {s_All, <<"1">>}}
    \cup {<<"constituencyType", v>> : v \in {s_All, <<"S", "C">>}}
    \cup {<<"ageRange", v>> : v \in {"All", "61+"}}
    \cup {<<"selectedGender", v>> : v \in {s_All, <<"F">>}}
    \cup {<<"marginRange", v>> : v \in {"All", "High"}}
    \cup {<<"selectedAlliance", v>> : v \in {"All", "Others"}}
    \cup {<<"voteCountRange", v>> : v \in {"All", ">1L"}}
    \cup {<<"selectedCategory", v>> : v \in {"All", "Turncoat"}}
    \cup {<<"selectedEducation", v>> : v \in {s_All, s_TenthPass}}

\* A handler has set the state to st and the component renders: the
\* processedData and statsData memos are computed again unless only the
\* page changed.
SheetUpdate(st) ==
    /\ steps < MaxSteps
    /\ steps' = steps + 1
    /\ sheet' = st
    /\ processed' = IF [st EXCEPT !.currentPage = sheet.currentPage] = sheet
                    THEN processed ELSE processedData(data, st)
    /\ statsData' = computeStats(data, processed')
    /\ UNCHANGED <<data, cmap, feature, resultsMap, normalizedAcName,
                   dataObj, seats, viewMode, styled, tooltip, charts, layer,
                   raw, app, geo, pc>>

onSheetSearchChange ==
    \E v \in {<<>>, <<"C", "H", "E", "N">>, <<"z", "z">>} : SheetUpdate(afterSearchChange(sheet, v))

onSheetDistrictChange ==
    \E v \in {s_All} \cup districts(data) :
        SheetUpdate(afterDistrictChange(sheet, v))

onConstituencyChange ==
    \E v \in {s_All} \cup constituencies(data, sheet.selectedDistrict) :
        SheetUpdate([sheet EXCEPT !.selectedConstituency = v])

\* The selects of party, position, type, age, gender, margin, alliance,
\* vote count, category and education: each sets its own state.
onFacetChange == \E s \in FacetOptions : SheetUpdate(With(sheet, s))

handleSort == \E key \in {"Margin", "Party"} : SheetUpdate(afterSort(sheet, key))

onSheetReset == SheetUpdate(afterReset(sheet))

\* The Previous button, disabled on page 1.
Previous ==
    /\ sheet.currentPage # 1
    /\ SheetUpdate(afterPrevious(sheet))

\* The Next button, disabled on the last page.
NextPage ==
    /\ sheet.currentPage # totalPages(processed)
    /\ SheetUpdate(afterNext(sheet, totalPages(processed)))

\* The master sheet is shown with its default state.
InitSheet ==
    /\ viewMode = "winner"
    /\ data \in SheetSets
    /\ sheet = DefaultSheet
    /\ cmap = DefaultMap
    /\ feature = NoFeature
    /\ processed = processedData(data, DefaultSheet)
    /\ resultsMap = EmptyMap
    /\ normalizedAcName = Undefined
    /\ dataObj = <<>>
    /\ seats = EmptyMap
    /\ styled = <<>>
    /\ tooltip = <<>>
    /\ statsData = computeStats(data, processed)
    /\ charts = <<>>
    /\ steps = 0
    /\ layer = <<>>
    /\ raw = <<>>
    /\ app = <<>>
    /\ geo = <<>>
    /\ pc = {}

SpecSheet ==
    InitSheet /\ [][onSheetSearchChange \/ onSheetDistrictChange
                    \/ onConstituencyChange \/ onFacetChange \/ handleSort
                    \/ onSheetReset \/ Previous \/ NextPage]_vars
-----------------------------------------------------------------------------
(* Properties *)

\* Is x an element of the sequence s?
InSeq(x, s) == \E i \in 1..Len(s) : s[i] = x

\* The name and the number a feature carries, whichever case they are in.
FeatureName(f) == JsOr(f.properties.AC_NAME, f.properties.ac_name)

FeatureAcNo(f) == JsOr(f.properties.AC_NO, f.properties.ac_no)

WrittenUpper(f) == f.properties.ac_name = Undefined

\* C1: the two records of the scenario, DMK first with margin 12000 and
\* 50000 votes, ADMK second with 38000 votes, both of Chennai.
ChennaiScenario ==
    /\ Len(data) = 2
    /\ data[1].Constituency_Name = Str(s_Chennai)
    /\ data[2].Constituency_Name = Str(s_Chennai)
    /\ data[1].Party = Str(s_DMK) /\ data[1].Position = Num(1)
    /\ data[1].Margin = Num(12000) /\ data[1].Votes = Num(50000)
    /\ data[2].Party = Str(s_ADMK) /\ data[2].Position = Num(2)
    /\ data[2].Votes = Num(38000)

\* C1: with the two Chennai records, the feature "Chennai (SC)" of any
\* number is joined to the DMK record as winner and the ADMK record as
\* runnerUp; the margin bucket Medium retains the DMK row; and the seat count
\* of the retained rows gives DMK one seat.
C1_EndToEnd ==
    ChennaiScenario =>
        /\ ("style" \in pc /\ FeatureName(feature) = Str(<<"C", "h", "e", "n", "n", "a", "i", " ", "(", "S", "C", ")">>))
              => dataObj = <<[winner |-> data[1], runnerUp |-> <<data[2]>>]>>
        /\ ("apply" \in pc /\ sheet.marginRange = "Medium")
              => /\ InSeq(data[1], processed)
                 /\ Str(s_DMK) \in DOMAIN seats
                 /\ seats[Str(s_DMK)] = 1

C1_Witness ==
    /\ ChennaiScenario
    /\ pc = {"style", "apply"}
    /\ FeatureName(feature) = Str(<<"C", "h", "e", "n", "n", "a", "i", " ", "(", "S", "C", ")">>)
    /\ FeatureAcNo(feature) = Num(7)
    /\ sheet.marginRange = "Medium"
    /\ dataObj # <<>>
    /\ processed = <<data[1]>>

\* C2: the output of the filter pipeline holds only records of the record
\* set, unaltered, and none of them more than once.
C2_OutputWithinInput ==
    "apply" \in pc =>
        /\ \A i \in 1..Len(processed) : InSeq(processed[i], data)
        /\ \A i, j \in 1..Len(processed) :
              processed[i].row = processed[j].row => i = j

C2_Witness ==
    /\ "apply" \in pc
    /\ sheet.sortConfig # <<>>
    /\ sheet.marginRange # "All"
    /\ Len(processed) = 2
    /\ Len(data) = 3
    /\ processed[1].row > processed[2].row

\* The facets of the filter state (the sort and the winners-only override
\* are not facets).
FacetFields ==
    {"searchTerm", "selectedDistrict", "selectedConstituency",
     "selectedParty", "selectedPosition", "constituencyType", "selectedYear",
     "ageRange", "selectedGender", "marginRange", "voteShareRange",
     "selectedAlliance", "voteCountRange", "selectedCategory",
     "selectedEducation"}

ActiveFacets(st) == {f \in FacetFields : st[f] # DefaultSheet[f]}

\* The state with the facet f alone, set as in the current state.
Only(f) == [DefaultSheet EXCEPT ![f] = sheet[f]]

TwoFacets ==
    /\ "apply" \in pc
    /\ Cardinality(ActiveFacets(sheet)) = 2
    /\ ~sheet.winnersOnly
    /\ sheet.sortConfig = <<>>

\* C3: with two facets set, the pipeline keeps the same records in the same
\* order as filtering by one facet and then by the other, in either order.
C3_FacetsCommute ==
    TwoFacets =>
        \A f, g \in ActiveFacets(sheet) :
            f # g =>
                processed = processedData(processedData(data, Only(f)),
                                          Only(g))

C3_Witness ==
    /\ TwoFacets
    /\ processed # <<>>
    /\ \A f \in ActiveFacets(sheet) :
          Len(processedData(data, Only(f))) > Len(processed)

\* The margin facet alone is set.
MarginOnly ==
    /\ "apply" \in pc
    /\ sheet.marginRange # "All"
    /\ sheet = [DefaultSheet EXCEPT !.marginRange = sheet.marginRange]

InBucket(range, m) ==
    CASE range = "High" -> m > 50000
      [] range = "Medium" -> m >= 10000 /\ m <= 50000
      [] range = "Low" -> m < 10000

\* C4: a record with margin m is retained by High iff m > 50000, by Medium
\* iff 10000 <= m <= 50000 and by Low iff m < 10000.
C4_MarginBuckets ==
    MarginOnly =>
        \A i \in 1..Len(data) :
            data[i].Margin.t = "number" =>
                (InSeq(data[i], processed)
                    <=> InBucket(sheet.marginRange, data[i].Margin.n))

\* The position facet alone is set, to DepositLost.
DepositLostOnly ==
    /\ "apply" \in pc
    /\ sheet = [DefaultSheet EXCEPT !.selectedPosition = <<"D", "e", "p", "o", "s", "i", "t", "L", "o", "s", "t">>]

\* C5: under DepositLost a record with a vote share is retained iff the
\* share is below 16.66, whatever its Position.
C5_DepositLost ==
    DepositLostOnly =>
        \A i \in 1..Len(data) :
            data[i].Vote_Share_Percentage.t = "number" =>
                (InSeq(data[i], processed)
                    <=> data[i].Vote_Share_Percentage.n < 1666)

C5_Witness ==
    /\ DepositLostOnly
    /\ \E i \in 1..Len(data) :
          /\ data[i].Vote_Share_Percentage = Num(1665)
          /\ data[i].Position = Num(3)
          /\ InSeq(data[i], processed)
    /\ \E i \in 1..Len(data) :
          /\ data[i].Vote_Share_Percentage = Num(1666)
          /\ data[i].Position = Num(2)
          /\ ~InSeq(data[i], processed)

\* The feature f with another name or another number, written as f is.
WithName(f, name) == MkFeature(name, FeatureAcNo(f), WrittenUpper(f))

WithAcNo(f, acNo) == MkFeature(FeatureName(f), acNo, WrittenUpper(f))

\* The reservation annotations: SC or ST in any letter case, closed or
\* unterminated, with or without a space before.
Annotations ==
    {sep \o <<"(", a, b>> \o close :
        sep \in {<<>>, <<" ">>},
        a \in {"s", "S"}, b \in {"c", "C", "t", "T"},
        close \in {<<>>, <<")">>}}

\* C6: a name followed by a reservation annotation normalizes to the key
\* of the name alone.
C6_AnnotationStripped ==
    ("style" \in pc /\ FeatureName(feature).t = "string") =>
        \A ann \in Annotations :
            getNormalizedName(
                WithName(feature, Str(FeatureName(feature).s \o ann)))
            = normalizedAcName

IsSplitName(f) ==
    /\ FeatureName(f).t = "string"
    /\ includes(toLowerCase(FeatureName(f).s), tiruchirappalli)

\* C7: for a name that contains tiruchirappalli in any letter case, the
\* numbers 140 and 141 give the west key and the east key, two different
\* keys, whatever annotation the name carries.
C7_SplitByNumber ==
    ("style" \in pc /\ IsSplitName(feature)) =>
        /\ getNormalizedName(WithAcNo(feature, Num(140)))
              = Str(TiruchirapalliWest)
        /\ getNormalizedName(WithAcNo(feature, Num(141)))
              = Str(TiruchirapalliEast)
        /\ getNormalizedName(WithAcNo(feature, Num(140)))
              # getNormalizedName(WithAcNo(feature, Num(141)))
        /\ FeatureAcNo(feature) = Num(140)
              => normalizedAcName = Str(TiruchirapalliWest)
        /\ FeatureAcNo(feature) = Num(141)
              => normalizedAcName = Str(TiruchirapalliEast)

C7_Witness ==
    /\ "style" \in pc
    /\ FeatureName(feature) = Str(<<"T", "i", "r", "u", "c", "h", "i", "r", "a", "p", "p", "a", "l", "l", "i", "(", "S", "C", ")">>)
    /\ FeatureAcNo(feature) = Num(141)
    /\ normalizedAcName = Str(TiruchirapalliEast)

\* The feature has a name and the name has no entry in the alias table.
Unmapped(f) ==
    /\ Truthy(FeatureName(f))
    /\ cleanName(FeatureName(f).s) \notin NameMappingKeys

\* C8: the key is a string, and for a name without an alias entry it is
\* the cleaned name (lower-cased, annotations stripped, trimmed).
C8_StringKey ==
    "style" \in pc =>
        /\ normalizedAcName.t = "string"
        /\ Unmapped(feature)
              => normalizedAcName = Str(cleanName(FeatureName(feature).s))

\* C9: every Position-1 record handed to the index builder is the winner
\* of exactly one entry, the one under its own key.
C9_OneEntryPerWinner ==
    "style" \in pc =>
        LET subset == filteredData(data, cmap)
        IN  \A i \in 1..Len(subset) :
                /\ winnerKey(subset[i]) \in DOMAIN resultsMap
                /\ resultsMap[winnerKey(subset[i])].winner = subset[i]
                /\ Cardinality({k \in DOMAIN resultsMap :
                                   resultsMap[k].winner = subset[i]}) = 1

IsRunnerUpFor(d, winner) ==
    d.Constituency_Name = winner.Constituency_Name /\ d.Position = Num(2)

\* C10: the runnerUp of an entry is a Position-2 record of the data with
\* the winner's constituency name, and it is absent exactly when the data
\* has no such record.
C10_RunnerUp ==
    "style" \in pc =>
        \A k \in DOMAIN resultsMap :
            LET e == resultsMap[k]
            IN  /\ e.runnerUp # <<>> =>
                      /\ InSeq(e.runnerUp[1], data)
                      /\ IsRunnerUpFor(e.runnerUp[1], e.winner)
                /\ e.runnerUp = <<>> <=>
                      ~\E i \in 1..Len(data) : IsRunnerUpFor(data[i], e.winner)

C10_Witness ==
    /\ "style" \in pc
    /\ cmap.selectedParty = s_DMK
    /\ \E k \in DOMAIN resultsMap :
          /\ resultsMap[k].runnerUp # <<>>
          /\ resultsMap[k].runnerUp[1].Party = Str(s_ADMK)
    /\ Len(data) = 3


\* C11: in every view mode a feature whose key has no entry in the index is
\* still styled and given a tooltip: the neutral fill, its own outline and
\* the NoData tooltip under the feature's name; a feature that has an entry
\* gets neither that outline nor that tooltip.
C11_NoDataState ==
    "style" \in pc =>
        /\ styled # <<>> /\ tooltip # <<>>
        /\ dataObj = <<>> =>
              /\ styled[1].fillColor = Hex("#CCCCCC")
              /\ styled[1].dashArray = "1"
              /\ tooltip[1].kind = "NoData"
              /\ tooltip[1].title = FeatureName(feature)
        /\ dataObj # <<>> =>
              /\ styled[1].dashArray # "1"
              /\ tooltip[1].kind # "NoData"

C11_Witness ==
    /\ "style" \in pc
    /\ viewMode = "margin"
    /\ FeatureName(feature) = Str(<<"S", "a", "l", "e", "m">>)
    /\ DOMAIN resultsMap # {}
    /\ dataObj = <<>>
    /\ tooltip[1].kind = "NoData"

\* C12: with winners-only set, the pipeline gives the Position-1 records of
\* what it gives with winners-only cleared, in the same order, whatever the
\* search, the facets and the sort are.
C12_WinnersOnlyOverride ==
    ("apply" \in pc /\ sheet.winnersOnly) =>
        processed = SelectSeq(
                        processedData(data,
                                      [sheet EXCEPT !.winnersOnly = FALSE]),
                        isWinner)

C12_Witness ==
    /\ "apply" \in pc
    /\ sheet.winnersOnly
    /\ sheet.sortConfig # <<>>
    /\ Len(processed) = 2
    /\ processed[1].row > processed[2].row
    /\ Len(data) = 3

\* The alliance facet and winners-only are set, nothing else.
AllianceOfWinners ==
    /\ "apply" \in pc
    /\ sheet.selectedAlliance # "All"
    /\ sheet = [DefaultSheet EXCEPT
                   !.selectedAlliance = sheet.selectedAlliance,
                   !.winnersOnly = TRUE]

\* C13: the three components put every party in the same alliance: the
\* winners the master sheet keeps for an alliance are the winners the map
\* keeps for it, and as many as the dashboard counts for it.
C13_OnePartition ==
    AllianceOfWinners =>
        /\ processed
              = filteredData(data,
                    [DefaultMap EXCEPT
                        !.selectedAlliance = sheet.selectedAlliance])
        /\ Len(processed) = allianceWins(data)[sheet.selectedAlliance]

\* The field a range facet reads.
RangeField ==
    [marginRange |-> "Margin", voteShareRange |-> "Vote_Share_Percentage",
     ageRange |-> "Age", voteCountRange |-> "Votes",
     selectedPosition |-> "Vote_Share_Percentage"]

\* One range facet alone is set (of the position facet, the deposit-lost
\* threshold).
RangeFacetOnly(f) ==
    /\ "apply" \in pc
    /\ sheet[f] # DefaultSheet[f]
    /\ sheet = [DefaultSheet EXCEPT ![f] = sheet[f]]
    /\ f = "selectedPosition" => sheet[f] = <<"D", "e", "p", "o", "s", "i", "t", "L", "o", "s", "t">>

\* C14: a record whose margin, vote share, age or vote count is null or
\* undefined is excluded by every bucket of the range facet on that field,
\* the deposit-lost threshold included.
C14_MissingFieldExcluded ==
    \A f \in DOMAIN RangeField :
        RangeFacetOnly(f) =>
            \A i \in 1..Len(data) :
                isMissing(data[i][RangeField[f]])
                    => ~InSeq(data[i], processed)

\* The vote-share facet alone is set.
VoteShareOnly ==
    /\ "apply" \in pc
    /\ sheet.voteShareRange # "All"
    /\ sheet = [DefaultSheet EXCEPT !.voteShareRange = sheet.voteShareRange]

\* Vote shares are in hundredths of a percent.
InShareBucket(range, v) ==
    CASE range = "High" -> v > 5000
      [] range = "Medium" -> v >= 3000 /\ v <= 5000
      [] range = "Low" -> v < 3000

\* C15: a record with vote share v is retained by High iff v > 50, by
\* Medium iff 30 <= v <= 50 and by Low iff v < 30.
C15_VoteShareBuckets ==
    VoteShareOnly =>
        \A i \in 1..Len(data) :
            data[i].Vote_Share_Percentage.t = "number" =>
                (InSeq(data[i], processed)
                    <=> InShareBucket(sheet.voteShareRange,
                                      data[i].Vote_Share_Percentage.n))

\* The search term alone is set.
SearchOnly ==
    /\ "apply" \in pc
    /\ sheet.searchTerm # <<>>
    /\ sheet = [DefaultSheet EXCEPT !.searchTerm = sheet.searchTerm]

\* The fields the search reads: the base names and their localized variants.
SearchFields ==
    {"Constituency_Name", "Candidate", "Party", "District_Name",
     "Constituency_Name_TA", "Party_TA", "District_Name_TA"}

\* t occurs in s when the letter case is ignored.
OccursIgnoringCase(t, s) ==
    \E k \in 0..(Len(s) - Len(t)) :
        \A j \in 1..Len(t) : LowerChar(s[k + j]) = LowerChar(t[j])

\* C16: with a search term, a record is retained iff the term occurs, the
\* letter case ignored, in one of its constituency, candidate, party and
\* district names, base or localized; a missing field matches nothing and
\* the other fields are still tested.
C16_FreeTextSearch ==
    SearchOnly =>
        \A i \in 1..Len(data) :
            InSeq(data[i], processed)
                <=> \E f \in SearchFields :
                        /\ data[i][f].t = "string"
                        /\ OccursIgnoringCase(sheet.searchTerm, data[i][f].s)

C16_Witness ==
    /\ SearchOnly
    /\ sheet.searchTerm = <<"C", "H", "E", "N">>
    /\ \E i \in 1..Len(data) :
          /\ isMissing(data[i].District_Name)
          /\ InSeq(data[i], processed)
    /\ \E i \in 1..Len(data) :
          /\ data[i].Constituency_Name = Str(s_HarurSC)
          /\ ~InSeq(data[i], processed)

\* A sort is requested; key is the column it is by.
Sorted == "apply" \in pc /\ sheet.sortConfig # <<>>

SortKey == sheet.sortConfig[1].key

\* C17: in the sorted output, asc or desc, no record whose sort value is
\* null or undefined comes before a record that has one.
C17_MissingLast ==
    Sorted =>
        \A i, j \in 1..Len(processed) :
            (i < j /\ isMissing(processed[i][SortKey]))
                => isMissing(processed[j][SortKey])

C17_Witness ==
    /\ Sorted
    /\ sheet.sortConfig[1] = [key |-> "Margin", direction |-> "desc"]
    /\ Len(processed) = 3
    /\ processed[3].row = 1
    /\ isMissing(processed[3].Margin)
    /\ processed[1].Margin.t = "number"
    /\ processed[2].Margin.t = "number"
    /\ processed[1].Margin.n > processed[2].Margin.n

\* a does not go after b by the sort key: numbers by their value, other
\* values by the comparison of their texts, the other way round under desc.
InOrder(a, b) ==
    LET x == IF sheet.sortConfig[1].direction = "asc" THEN a ELSE b
        y == IF sheet.sortConfig[1].direction = "asc" THEN b ELSE a
    IN  IF x.t = "number" /\ y.t = "number" THEN x.n <= y.n
        ELSE localeCompare(jsString(x), jsString(y)) <= 0

\* C18: the sorted output holds the records of the unsorted output, each
\* once, in the order of the key; records with equal values keep the order
\* they had.
C18_StableOrder ==
    Sorted =>
        LET unsorted == processedData(data, [sheet EXCEPT !.sortConfig = <<>>])
        IN  /\ Len(processed) = Len(unsorted)
            /\ \A i \in 1..Len(unsorted) : InSeq(unsorted[i], processed)
            /\ \A i, j \in 1..Len(processed) :
                  i < j =>
                     LET a == processed[i][SortKey]
                         b == processed[j][SortKey]
                     IN  /\ (~isMissing(a) /\ ~isMissing(b)) => InOrder(a, b)
                         /\ a = b => processed[i].row < processed[j].row

C18_Witness ==
    /\ Sorted
    /\ sheet.sortConfig[1] = [key |-> "Party", direction |-> "asc"]
    /\ Len(processed) = 3
    /\ processed[1].row = 2
    /\ processed[2].Party = processed[3].Party
    /\ processed[2].row = 1

CategoryRows ==
    IF statsData = <<>> THEN {}
    ELSE {statsData[1].categoryData[k] : k \in 1..3}

\* C20: the win rate of a category is its wins over its candidates as a
\* percentage, to the nearest whole number, and it is 0 when the category
\* has no candidate.
C20_WinRateZeroSafe ==
    "apply" \in pc =>
        \A r \in CategoryRows :
            /\ r.wins <= r.total
            /\ r.total = 0 => r.rate = 0
            /\ r.total > 0 =>
                  /\ 2 * (r.rate * r.total - 100 * r.wins) <= r.total
                  /\ 2 * (100 * r.wins - r.rate * r.total) <= r.total

C20_Witness ==
    /\ "apply" \in pc
    /\ statsData # <<>>
    /\ \E r \in CategoryRows : r.total = 0 /\ r.rate = 0
    /\ \E r \in CategoryRows : r.total = 3 /\ r.wins = 2 /\ r.rate = 67
    /\ \E r \in CategoryRows : r.total = 1 /\ r.wins = 1 /\ r.rate = 100

\* The number of records of rows that are in a category (a truthy cell).
InCategory(rows, name) ==
    Cardinality({i \in 1..Len(rows) :
        CASE name = "Incumbents" -> Truthy(rows[i].Incumbent)
          [] name = "Turncoats" -> Truthy(rows[i].Turncoat)
          [] OTHER -> Truthy(rows[i].Recontest)})

\* C22: the win rate of each category shown with the filtered table counts
\* the candidates of the category among the records the filter retained.
C22_RatesOverFilteredSet ==
    "apply" \in pc =>
        \A r \in CategoryRows : r.total = InCategory(processed, r.name)

\* C28: the runnerUp of every entry of the index is of the election year
\* of the entry's winner.
C28_RunnerUpSameYear ==
    "style" \in pc =>
        \A k \in DOMAIN resultsMap :
            resultsMap[k].runnerUp # <<>> =>
                resultsMap[k].runnerUp[1].Year = resultsMap[k].winner.Year

\* A number that is neither NaN nor infinite.
Finite(v) == v.t = "number"

\* The reducers' values, once they were computed.
Charts == charts[1]

\* C21: with no records every reducer gives an empty list or zeros and no
\* value that is not a finite number: the seat counts, vote shares, strike
\* rates, vote and seat shares, average ages, the district, education and
\* profession counts on empty data, the map summary on an empty filtered
\* set, and no category rates at all on an empty processed set.
C21_TotalOnEmpty ==
    /\ ("aggregate" \in pc /\ data = <<>>) =>
          /\ DOMAIN Charts.partyWins = {}
          /\ \A a \in DOMAIN Charts.allianceWins : Charts.allianceWins[a] = 0
          /\ Charts.voteShare = <<>>
          /\ Charts.districtData.data = <<>>
          /\ Charts.districtData.parties = <<>>
          /\ Charts.strikeRateData = <<>>
          /\ Charts.voteVsSeatData = <<>>
          /\ Charts.ageData = <<>>
          /\ Charts.educationData = <<>>
          /\ Charts.professionData = <<>>
    /\ ("aggregate" \in pc /\ filteredData(data, cmap) = <<>>) =>
          /\ Charts.summary.count = 0
          /\ Charts.summary.totalVotes = Num(0)
          /\ Charts.summary.averageMargin = Num(0)
          /\ Charts.summary.parties = <<>>
    /\ ("apply" \in pc /\ processed = <<>>) => statsData = <<>>

C21_Witness ==
    /\ "aggregate" \in pc
    /\ "apply" \in pc
    /\ data = <<>>
    /\ Charts.voteVsSeatData = <<>>
    /\ Charts.summary.averageMargin = Num(0)
    /\ statsData = <<>>

\* The winners of a district: the sum of its party counts.
RECURSIVE SumValues(_)
SumValues(entries) ==
    IF entries = <<>> THEN 0
    ELSE entries[1].value + SumValues(Tail(entries))

\* A frequency table is in falling order of its counts.
Falling(counts) ==
    \A i \in 1..(Len(counts) - 1) : counts[i] >= counts[i + 1]

\* C23: the district, profession and education tables list their buckets in
\* non-increasing order of the counts.
C23_TopNByCount ==
    /\ "aggregate" \in pc =>
          /\ Falling([k \in 1..Len(Charts.districtData.data) |->
                         SumValues(Charts.districtData.data[k].counts)])
          /\ Falling([k \in 1..Len(Charts.professionData) |->
                         Charts.professionData[k].value])
    /\ ("apply" \in pc /\ statsData # <<>>) =>
          Falling([k \in 1..Len(statsData[1].eduData) |->
                      statsData[1].eduData[k].value])

\* C29: with a Position-1 record in the data, the vote share, seat share
\* and conversion of every listed party are finite numbers.
C29_FiniteShares ==
    ("aggregate" \in pc /\ \E i \in 1..Len(data) : isWinner(data[i])) =>
        \A k \in 1..Len(Charts.voteVsSeatData) :
            LET row == Charts.voteVsSeatData[k]
            IN  /\ Finite(row.voteShare)
                /\ Finite(row.seatShare)
                /\ Finite(row.conversion)

\* C24: a failed load of the table is caught, ends the loading state and
\* renders no data view; a failed load of the map ends its loading state
\* and shows the failure message in place of the map.
C24_FailedLoad ==
    /\ "caught" \in pc =>
          /\ ~app.loading
          /\ rendered(app) \notin Views
    /\ (geo # <<>> /\ ~geo[1].loading /\ ~raw.geojson) =>
          mapRendered(geo[1]) = "Failed to load map data."

\* The entry of a table for a key text, or the base value without one.
EntryOr(table, key, base) ==
    IF key \in DOMAIN table THEN Str(table[key]) ELSE base

C26_IndexNeverStale ==
    layer # <<>> =>
        /\ layer[1].index = buildResultsMap(data, cmap)
        /\ \A k \in DOMAIN layer[1].index :
              InSeq(layer[1].index[k].winner, filteredData(data, cmap))

C26_Witness ==
    /\ layer # <<>>
    /\ cmap.searchTerm = <<"C", "H", "E", "N">>
    /\ cmap.selectedParty = s_DMK
    /\ cmap.marginRange = "Low"
    /\ viewMode = "margin"
    /\ Len(data) = 10
    /\ layer[1].index = EmptyMap
    /\ buildResultsMap(data, DefaultMap) # EmptyMap

\* C27: the page number stays between 1 and the number of pages (or 1 when
\* there is none), so a non-empty filtered set always shows a row.
C27_PageInRange ==
    /\ 1 <= sheet.currentPage
    /\ sheet.currentPage <= (IF totalPages(processed) > 1
                             THEN totalPages(processed) ELSE 1)
    /\ processed # <<>> => currentData(processed, sheet.currentPage) # <<>>

\* C30: when a district and a constituency are both selected, a record of
\* the data is of that constituency in that district.
C30_DistrictConstituency ==
    (sheet.selectedDistrict # s_All /\ sheet.selectedConstituency # s_All) =>
        \E i \in 1..Len(data) :
            /\ JsOr(data[i].District_Name_TA, data[i].District_Name)
                   = Str(sheet.selectedDistrict)
            /\ JsOr(data[i].Constituency_Name_TA, data[i].Constituency_Name)
                   = Str(sheet.selectedConstituency)

C30_Witness ==
    /\ steps = 3
    /\ sheet.selectedDistrict = s_Dharmapuri
    /\ sheet.selectedConstituency = ta_Harur
    /\ Len(processed) = 3
=============================================================================
